---- MODULE Spec2Model ----
(***************************************************************************)
(* A model of gdext's #[godot_api] expander                                *)
(* (godot-macros/src/class/godot_api.rs): the expansion of a               *)
(* virtual-override block (transform_trait_impl) and of a capability block *)
(* (transform_inherent_impl, process_godot_fns, extract_attributes), the   *)
(* compiler's resolution of the emitted items under a build configuration, *)
(* and the plugin registry the emitted plugin_add! entries end up in; and   *)
(* of the binding generator's special-case rule set                        *)
(* (godot-codegen/src/special_cases.rs).                                   *)
(***************************************************************************)
EXTENDS Integers, Sequences, FiniteSets, TLC

VARIABLES
    \* ---- transform_trait_impl ------------------------------------------
    trait_pc,        \* "idle" | "loop" | "emitted" | "compiled"
    since_api_4_2,   \* cfg!(since_api = "4.2") of the expander's own build
    original_impl,   \* body_items of the virtual-override block read so far
    trait_frame,     \* the locals of transform_trait_impl
    trait_result,    \* the token stream it returns (Some) or None
    plugin,          \* the ClassPlugin value of the compiled binary (Some) or None
    virtual_call,    \* the last __virtual_call: [name, inactive, result] (Some) or None
    notification,    \* the last __godot_notification: [what, inactive, calls] (Some)
                     \* or None
    \* ---- extract_attributes --------------------------------------------
    attr_pc,         \* "idle" | "loop" | "done"
    attributes,      \* the attributes of the declaration
    attr_index,      \* the loop's position (0-based, as enumerate() counts)
    found,           \* the local `found`: Option<BoundAttr>
    attr_return,     \* what extract_attributes returned (Some) or None
    \* ---- transform_inherent_impl, process_godot_fns ----------------------
    inherent_pc,     \* "idle" | "fns" | "returned" | "compiled"
    input_decl,      \* the members of the capability block as written, read so far
    body_items,      \* decl.body_items, as process_godot_fns rewrites them
    func_definitions,
    signal_definitions,
    removed_indexes, \* the locals of process_godot_fns
    inherent_return, \* what transform_inherent_impl returned (Some) or None
    registered,      \* what the compiled __register_methods/__register_constants
                     \* register (Some) or None
    \* ---- the crate and the plugin registry --------------------------------
    registry_pc,     \* "idle" | "source" | "failed" | "library" | "loading" | "loaded"
    crate,           \* the #[godot_api] blocks of the extension crate
    plugins,         \* the ClassPlugin value of each block's plugin_add! entry
    pending,         \* the entries whose initializer has not run yet
    registry,        \* __GODOT_PLUGIN_REGISTRY
    installed,       \* the classes whose dispatch table the host installed
    unloaded,        \* the classes the host unloaded
    \* ---- special_cases.rs ------------------------------------------------
    rules_pc,        \* "idle" | "ready" | "consulted" | "generated"
    features,        \* the build configuration of the generator
    ty_name,         \* the class or builtin type the generator is at
    ty_method,       \* the method of it the generator is at
    context,         \* what the generator's Context says of the method
    answers,         \* what the rule set answered, one element per consultation
    public_names,    \* the public name, and the public names of it in turn
    output,          \* what the generator emits for the class and method (Some) or None
    \* ---- the compilation of the emitted code -----------------------------
    config,          \* the build configuration the emitted code is compiled under
    build            \* the diagnostics of that compilation (Some) or None

attr_vars == <<attr_pc, attributes, attr_index, found, attr_return>>

trait_vars == <<trait_pc, since_api_4_2, original_impl, trait_frame, trait_result,
                plugin, virtual_call, notification>>

inherent_vars == <<inherent_pc, input_decl, body_items, func_definitions,
                   signal_definitions, removed_indexes, inherent_return, registered>>

registry_vars == <<registry_pc, crate, plugins, pending, registry, installed, unloaded>>

rules_vars == <<rules_pc, features, ty_name, ty_method, context, answers,
                public_names, output>>

compile_vars == <<config, build>>

vars == <<trait_vars, attr_vars, inherent_vars, registry_vars, rules_vars, compile_vars>>

\* What the actions of one part of the model leave alone.
not_trait_vars == <<attr_vars, inherent_vars, registry_vars, rules_vars>>
not_attr_vars == <<trait_vars, inherent_vars, registry_vars, rules_vars, compile_vars>>
not_inherent_vars == <<trait_vars, attr_vars, registry_vars, rules_vars>>
not_registry_vars == <<trait_vars, attr_vars, inherent_vars, rules_vars>>
not_rules_vars == <<trait_vars, attr_vars, inherent_vars, registry_vars, compile_vars>>

----------------------------------------------------------------------------
(* Bounds of the model.                                                    *)

\* Members read from one virtual-override block.
MaxTraitItems == 2

\* Attributes on one declaration.
MaxAttrs == 3

\* Members read from one capability block.
MaxMembers == 3

\* #[godot_api] blocks in the extension crate.
MaxBlocks == 2

\* Consultations of the rule set on one class and method, and applications
\* of the public-name computation to its own result.
MaxConsultations == 2

----------------------------------------------------------------------------
(* Option<T>: None is the empty sequence, Some(x) the one-element one.     *)

None == <<>>
Some(x) == <<x>>
IsSome(o) == o # <<>>
Unwrap(o) == o[1]

Min(S) == CHOOSE x \in S : \A y \in S : x <= y

----------------------------------------------------------------------------
(* Attributes and build predicates.                                        *)

\* venial::Attribute: a path and a value.
Attribute(path, value) == [path |-> path, value |-> value]

\* Attribute::get_single_path_segment: Some(name) for #[name ...], None for
\* #[segmented::path ...].
get_single_path_segment(attr) ==
    IF Len(attr.path) = 1 THEN Some(attr.path[1]) ELSE None

\* The feature flags a build configuration may enable.
Flags == {"a", "b"}
Configs == SUBSET Flags

\* The build predicates of the model: feature a, its negation, feature b.
Predicates == {"a", "not_a", "b"}

\* Whether predicate p holds in a build configuration.
PredicateHolds(p, cfg) ==
    CASE p = "a"     -> "a" \in cfg
      [] p = "not_a" -> "a" \notin cfg
      [] p = "b"     -> "b" \in cfg

\* util::extract_cfg_attrs: the #[cfg(...)] attributes among `attrs`, in
\* order.
extract_cfg_attrs(attrs) ==
    SelectSeq(attrs, LAMBDA attr : get_single_path_segment(attr) = Some("cfg"))

\* The compiler keeps an item iff every #[cfg] attribute on it holds.
Survives(attrs, cfg) ==
    \A i \in 1..Len(attrs) :
        get_single_path_segment(attrs[i]) = Some("cfg")
            => PredicateHolds(attrs[i].value, cfg)

----------------------------------------------------------------------------
(* transform_trait_impl: codegen for `#[godot_api] impl GodotExt for T`.   *)

\* The callback a lifecycle slot's match arm names: callbacks::<cb>::<class>.
Callback(cb, class_name) == [callback |-> cb, class |-> class_name]

\* (mutant) a match arm that does not carry the declaration's #[cfg]s.
ArmUnguarded(cfg_attrs, cb, class_name) ==
    [cfg_attrs |-> <<>>, value |-> Some(Callback(cb, class_name))]

\* A match arm `#(#cfg_attrs)* () => Some(<callback>),`.
Arm(cfg_attrs, cb, class_name) ==
    [cfg_attrs |-> cfg_attrs, value |-> Some(Callback(cb, class_name))]

\* A generated `#(#cfg_attrs)* impl <trait> for <class> { fn .. { <Self as
\* Trait>::<calls>(..) } }`.
AdapterImpl(cfg_attrs, trait, class_name, calls) ==
    [cfg_attrs |-> cfg_attrs, trait |-> trait, class |-> class_name, calls |-> calls]

\* `quote! { #opt  <arm> }` for opt: Option<TokenStream>: None interpolates
\* to nothing.
PushArm(opt, arm) ==
    Some((IF IsSome(opt) THEN Unwrap(opt) ELSE <<>>) \o <<arm>>)

\* The locals of transform_trait_impl before its loop.
TraitFrame0 ==
    [godot_init_impl |-> <<>>, to_string_impl |-> <<>>,
     register_class_impl |-> <<>>, on_notification_impl |-> <<>>,
     register_fn |-> None, create_fn |-> None, recreate_fn |-> None,
     to_string_fn |-> None, on_notification_fn |-> None,
     virtual_methods |-> <<>>, virtual_method_cfg_attrs |-> <<>>,
     virtual_method_names |-> <<>>]

\* (mutant) the lookup name without the init_ext exception.
virtual_method_name_prefixed(method_name) == "_" \o method_name

\* The Godot-facing name of a non-lifecycle virtual method.
virtual_method_name(method_name) ==
    IF method_name = "init_ext" THEN "_init" ELSE "_" \o method_name

\* (mutant) a match without the "init" arm: init falls to `other_name`.
match_arm_without_init(method_name) ==
    IF method_name \in {"register_class", "to_string", "on_notification"}
    THEN method_name ELSE "other_name"

\* The arm of `match method_name.as_str()` that takes the method.
match_arm(method_name) ==
    IF method_name \in {"register_class", "init", "to_string", "on_notification"}
    THEN method_name ELSE "other_name"

\* One iteration of the loop over original_impl.body_items, on the method
\* at position `index`.
trait_item(f, method, index, class_name, api42) ==
    LET cfg_attrs == extract_cfg_attrs(method.attributes)
        method_name == method.name
    IN  CASE match_arm(method_name) = "register_class" ->
               [f EXCEPT
                  !.register_class_impl =
                      Append(@, AdapterImpl(cfg_attrs, "GodotRegisterClass", class_name,
                                            "register_class")),
                  !.register_fn = PushArm(@, Arm(cfg_attrs, "register_class_by_builder",
                                                 class_name))]
          [] match_arm(method_name) = "init" ->
               [f EXCEPT
                  !.godot_init_impl =
                      Append(@, AdapterImpl(cfg_attrs, "GodotInit", class_name, "init")),
                  !.create_fn = PushArm(@, Arm(cfg_attrs, "create", class_name)),
                  !.recreate_fn =
                      IF api42 THEN PushArm(@, Arm(cfg_attrs, "recreate", class_name))
                      ELSE @]
          [] match_arm(method_name) = "to_string" ->
               [f EXCEPT
                  !.to_string_impl =
                      Append(@, AdapterImpl(cfg_attrs, "GodotToString", class_name,
                                            "to_string")),
                  !.to_string_fn = PushArm(@, Arm(cfg_attrs, "to_string", class_name))]
          [] match_arm(method_name) = "on_notification" ->
               [f EXCEPT
                  !.on_notification_impl =
                      Append(@, AdapterImpl(cfg_attrs, "GodotNotification", class_name,
                                            "on_notification")),
                  !.on_notification_fn =
                      PushArm(@, Arm(cfg_attrs, "on_notification", class_name))]
          [] OTHER ->
               [f EXCEPT
                  !.virtual_method_cfg_attrs = Append(@, cfg_attrs),
                  !.virtual_method_names = Append(@, virtual_method_name(method_name)),
                  \* util::reduce_to_signature: the method without its body; the
                  \* position tells the declarations of one name apart.
                  !.virtual_methods = Append(@, [name |-> method_name, decl |-> index])]

\* convert_to_match_expression_or_none: Some(arms) becomes
\* `match () { arms  _ => None }`, None becomes `None`.
convert_to_match_expression_or_none(tokens) ==
    IF IsSome(tokens)
    THEN [is_match |-> TRUE, arms |-> Unwrap(tokens)]
    ELSE [is_match |-> FALSE, arms |-> <<>>]

\* make_virtual_method_callback: the thunk of one virtual method.
make_virtual_method_callback(class_name, method) ==
    Some([callback |-> "virtual", class |-> class_name,
          method |-> method.name, decl |-> method.decl])

\* (mutant) the arms of __virtual_call without their #[cfg]s.
VirtualCallArmsUnguarded(f, class_name) ==
    [i \in 1..Len(f.virtual_methods) |->
        [cfg_attrs |-> <<>>,
         name |-> f.virtual_method_names[i],
         value |-> make_virtual_method_callback(class_name, f.virtual_methods[i])]]

\* The arms of `match name { .. }` in the generated __virtual_call.
VirtualCallArms(f, class_name) ==
    [i \in 1..Len(f.virtual_methods) |->
        [cfg_attrs |-> f.virtual_method_cfg_attrs[i],
         name |-> f.virtual_method_names[i],
         value |-> make_virtual_method_callback(class_name, f.virtual_methods[i])]]

\* The plugin_add! entry of a virtual-override block.
UserVirtualsPlugin(f, class_name) ==
    [class_name |-> class_name,
     component |->
        [kind |-> "UserVirtuals",
         user_register_fn |-> convert_to_match_expression_or_none(f.register_fn),
         user_create_fn |-> convert_to_match_expression_or_none(f.create_fn),
         user_recreate_fn |-> convert_to_match_expression_or_none(f.recreate_fn),
         user_to_string_fn |-> convert_to_match_expression_or_none(f.to_string_fn),
         user_on_notification_fn |->
            convert_to_match_expression_or_none(f.on_notification_fn),
         get_virtual_fn |-> Callback("get_virtual", class_name)],
     init_level |-> "INIT_LEVEL"]

\* The adapter impls and marker impls of the result, in emission order.
TraitResultImpls(f, class_name) ==
    f.godot_init_impl \o f.to_string_impl \o f.on_notification_impl
      \o f.register_class_impl
      \o <<AdapterImpl(<<>>, "You_forgot_the_attribute__godot_api", class_name, ""),
           AdapterImpl(<<>>, "ImplementsGodotVirtual", class_name, "")>>

\* The positions of the methods whose name no earlier method has.
FirstOfEachName(items) ==
    {i \in 1..Len(items) : \A j \in 1..(i - 1) : items[j].name # items[i].name}

\* The positions of the impls whose trait no earlier impl has.
FirstOfEachTrait(items) ==
    {i \in 1..Len(items) : \A j \in 1..(i - 1) : items[j].trait # items[i].trait}

\* The subsequence of `items` at the positions P.
RECURSIVE Pick(_, _, _)
Pick(items, P, i) ==
    IF i > Len(items) THEN <<>>
    ELSE (IF i \in P THEN <<items[i]>> ELSE <<>>) \o Pick(items, P, i + 1)

\* (mutant) a result that silently keeps the first declaration of each
\* method and the first impl of each trait.
TraitResultFirstWins(impl, f, class_name) ==
    LET impls == TraitResultImpls(f, class_name)
    IN  [original_impl |-> Pick(impl, FirstOfEachName(impl), 1),
         impls |-> Pick(impls, FirstOfEachTrait(impls), 1),
         virtual_call |-> VirtualCallArms(f, class_name),
         plugin |-> UserVirtualsPlugin(f, class_name)]

\* The token stream transform_trait_impl returns.
TraitResult(impl, f, class_name) ==
    [original_impl |-> impl,
     impls |-> TraitResultImpls(f, class_name),
     virtual_call |-> VirtualCallArms(f, class_name),
     plugin |-> UserVirtualsPlugin(f, class_name)]

----------------------------------------------------------------------------
(* The compiler on the emitted items, under one build configuration.       *)

\* error[E0201]: two surviving methods of one name in the re-emitted impl.
DuplicateDefinitions(impl, cfg) ==
    {impl[i].name : i \in {i \in 1..Len(impl) :
        /\ Survives(impl[i].attributes, cfg)
        /\ \E j \in 1..Len(impl) :
              /\ j # i
              /\ impl[j].name = impl[i].name
              /\ Survives(impl[j].attributes, cfg)}}

\* error[E0119]: two surviving impls of one trait for one class.
ConflictingImpls(impls, cfg) ==
    {<<impls[i].trait, impls[i].class>> : i \in {i \in 1..Len(impls) :
        /\ Survives(impls[i].cfg_attrs, cfg)
        /\ \E j \in 1..Len(impls) :
              /\ j # i
              /\ impls[j].trait = impls[i].trait
              /\ impls[j].class = impls[i].class
              /\ Survives(impls[j].cfg_attrs, cfg)}}

\* The diagnostics of compiling the result of transform_trait_impl.
CompileErrors(result, cfg) ==
    [duplicate_definitions |-> DuplicateDefinitions(result.original_impl, cfg),
     conflicting_impls |-> ConflictingImpls(result.impls, cfg)]

BuildOk(diagnostics) ==
    /\ diagnostics.duplicate_definitions = {}
    /\ diagnostics.conflicting_impls = {}

\* The value of `match () { #[cfg] () => Some(X), ..  _ => None }` (or of a
\* bare `None`) once the compiler has removed the arms whose predicates fail:
\* the first remaining arm matches.
EvalMatch(expr, cfg) ==
    LET alive == {i \in 1..Len(expr.arms) : Survives(expr.arms[i].cfg_attrs, cfg)}
    IN  IF expr.is_match /\ alive # {} THEN expr.arms[Min(alive)].value ELSE None

\* The ClassPlugin value the compiled plugin_add! entry holds.
PluginValue(p, cfg) ==
    [class_name |-> p.class_name,
     component |->
        [kind |-> "UserVirtuals",
         user_register_fn |-> EvalMatch(p.component.user_register_fn, cfg),
         user_create_fn |-> EvalMatch(p.component.user_create_fn, cfg),
         user_recreate_fn |-> EvalMatch(p.component.user_recreate_fn, cfg),
         user_to_string_fn |-> EvalMatch(p.component.user_to_string_fn, cfg),
         user_on_notification_fn |-> EvalMatch(p.component.user_on_notification_fn, cfg),
         get_virtual_fn |-> p.component.get_virtual_fn],
     init_level |-> p.init_level]

\* The arms of __virtual_call's `match name` the compiler keeps.
SurvivingArms(arms, cfg) ==
    SelectSeq(arms, LAMBDA arm : Survives(arm.cfg_attrs, cfg))

\* (mutant) a __virtual_call without the is_class_inactive early return.
virtual_call_fn_always_active(arms, cfg, inactive, name) ==
    LET hit == {i \in 1..Len(arms) :
                    Survives(arms[i].cfg_attrs, cfg) /\ arms[i].name = name}
    IN  IF hit # {} THEN arms[Min(hit)].value
        ELSE None

\* The generated __virtual_call(name) of the compiled class; `inactive` is
\* the value of is_class_inactive(Self::__config().is_tool) at the call.
virtual_call_fn(arms, cfg, inactive, name) ==
    LET hit == {i \in 1..Len(arms) :
                    Survives(arms[i].cfg_attrs, cfg) /\ arms[i].name = name}
    IN  IF inactive THEN None
        ELSE IF hit # {} THEN arms[Min(hit)].value
        ELSE None

\* The generated __godot_notification(what) of the compiled class, as the
\* calls of the user's methods it makes: the body of the surviving
\* GodotNotification impl, which returns before the call when `inactive`,
\* the value of is_class_inactive(Self::__config().is_tool), holds.
godot_notification(impls, cfg, inactive, what) ==
    LET alive == {i \in 1..Len(impls) :
                    /\ impls[i].trait = "GodotNotification"
                    /\ Survives(impls[i].cfg_attrs, cfg)}
    IN  IF alive = {} \/ inactive THEN <<>>
        ELSE <<[method |-> impls[Min(alive)].calls, what |-> what]>>

----------------------------------------------------------------------------
(* The inputs of the virtual-override specification.                       *)

ClassName == "Player"

TraitMethodNames ==
    {"register_class", "init", "to_string", "on_notification", "ready", "process",
     "init_ext"}

TraitAttrLists ==
    {<<>>,
     <<Attribute(<<"cfg">>, "a")>>,
     <<Attribute(<<"cfg">>, "not_a")>>,
     <<Attribute(<<"doc">>, ""), Attribute(<<"cfg">>, "b")>>}

TraitMethods == [name : TraitMethodNames, attributes : TraitAttrLists]

\* The notification codes the host delivers (`what: i32`).
Notifications == {0, 13}

\* The names the host asks __virtual_call for.
HostVirtualNames == {"_ready", "_process", "_init"}

----------------------------------------------------------------------------
(* The virtual-override specification: expand, compile, look up.           *)

\* Nothing compiled yet.
CompileIdle ==
    /\ config = {}
    /\ build = None

TraitIdle ==
    /\ trait_pc = "idle"
    /\ since_api_4_2 = FALSE
    /\ original_impl = <<>>
    /\ trait_frame = TraitFrame0
    /\ trait_result = None
    /\ plugin = None
    /\ virtual_call = None
    /\ notification = None

TraitInit ==
    /\ trait_pc = "loop"
    /\ since_api_4_2 \in BOOLEAN
    /\ original_impl = <<>>
    /\ trait_frame = TraitFrame0
    /\ trait_result = None
    /\ plugin = None
    /\ virtual_call = None
    /\ notification = None

\* The loop of transform_trait_impl reads the next member of the block.
TraitItem ==
    /\ trait_pc = "loop"
    /\ Len(original_impl) < MaxTraitItems
    /\ \E method \in TraitMethods :
          /\ original_impl' = Append(original_impl, method)
          /\ trait_frame' = trait_item(trait_frame, method, Len(original_impl) + 1,
                                        ClassName, since_api_4_2)
    /\ UNCHANGED <<trait_pc, since_api_4_2, trait_result, config, build, plugin,
                   virtual_call, notification>>
    /\ UNCHANGED not_trait_vars

\* The block has no more members: transform_trait_impl returns its result.
TraitEmit ==
    /\ trait_pc = "loop"
    /\ trait_pc' = "emitted"
    /\ trait_result' = Some(TraitResult(original_impl, trait_frame, ClassName))
    /\ UNCHANGED <<since_api_4_2, original_impl, trait_frame, config, build, plugin,
                   virtual_call, notification>>
    /\ UNCHANGED not_trait_vars

\* The emitted code is compiled under one build configuration.
TraitCompile ==
    /\ trait_pc = "emitted"
    /\ \E cfg \in Configs :
          LET diagnostics == CompileErrors(Unwrap(trait_result), cfg)
          IN  /\ config' = cfg
              /\ build' = Some(diagnostics)
              /\ plugin' = IF BuildOk(diagnostics)
                           THEN Some(PluginValue(Unwrap(trait_result).plugin, cfg))
                           ELSE None
    /\ trait_pc' = "compiled"
    /\ UNCHANGED <<since_api_4_2, original_impl, trait_frame, trait_result, virtual_call,
                   notification>>
    /\ UNCHANGED not_trait_vars

\* The host asks the compiled class for a virtual method by name.
VirtualCall ==
    /\ trait_pc = "compiled"
    /\ IsSome(plugin)
    /\ \E name \in HostVirtualNames, inactive \in BOOLEAN :
          virtual_call' =
              Some([name |-> name, inactive |-> inactive,
                    result |-> virtual_call_fn(Unwrap(trait_result).virtual_call,
                                               config, inactive, name)])
    /\ UNCHANGED <<trait_pc, since_api_4_2, original_impl, trait_frame, trait_result,
                   config, build, plugin, notification>>
    /\ UNCHANGED not_trait_vars

\* The host delivers a notification to an instance of the compiled class,
\* through the callback of the plugin's user_on_notification_fn slot.
Notification ==
    /\ trait_pc = "compiled"
    /\ IsSome(plugin)
    /\ IsSome(Unwrap(plugin).component.user_on_notification_fn)
    /\ \E what \in Notifications, inactive \in BOOLEAN :
          notification' =
              Some([what |-> what, inactive |-> inactive,
                    calls |-> godot_notification(Unwrap(trait_result).impls,
                                                 config, inactive, what)])
    /\ UNCHANGED <<trait_pc, since_api_4_2, original_impl, trait_frame, trait_result,
                   config, build, plugin, virtual_call>>
    /\ UNCHANGED not_trait_vars

TraitNext == TraitItem \/ TraitEmit \/ TraitCompile \/ VirtualCall \/ Notification


----------------------------------------------------------------------------
(* extract_attributes: the role attribute of one declaration.              *)

\* Result<T, Error>.
Ok(x) == [ok |-> TRUE, value |-> Some(x), error |-> ""]
Err(msg) == [ok |-> FALSE, value |-> None, error |-> msg]

RoleNames == {"func", "signal", "constant"}

\* The BoundAttr built for the role attribute `attr` at position `index`.
\* For #[func], `rename` and `gd_self` are read from its key-value list.
BoundAttr(attr, index) ==
    LET attr_name == Unwrap(get_single_path_segment(attr))
    IN  [attr_name |-> attr_name,
         index |-> index,
         ty |-> CASE attr_name = "func" ->
                       [kind |-> "Func",
                        rename |-> IF attr.value = "rename" THEN Some("renamed") ELSE None,
                        has_gd_self |-> attr.value = "gd_self"]
                  [] attr_name = "signal" ->
                       [kind |-> "Signal", rename |-> None, has_gd_self |-> FALSE]
                  [] attr_name = "constant" ->
                       [kind |-> "Const", rename |-> None, has_gd_self |-> FALSE]]

AtMostOneRole ==
    "at most one #[func], #[signal], or #[constant] attribute per declaration allowed"

\* (mutant) the iteration without the "at most 1 attribute" validation: the
\* last role attribute wins.
extract_attributes_step_last_wins(fnd, attr, index) ==
    LET segment == get_single_path_segment(attr)
    IN  IF segment = None
        THEN [found |-> fnd, error |-> None]
        ELSE IF Unwrap(segment) \notin RoleNames
        THEN [found |-> fnd, error |-> None]
        ELSE [found |-> Some(BoundAttr(attr, index)), error |-> None]

\* One iteration of the loop of extract_attributes on attributes[index]:
\* the new `found`, and the error the iteration returns with, if any.
extract_attributes_step(fnd, attr, index) ==
    LET segment == get_single_path_segment(attr)
    IN  IF segment = None
        THEN [found |-> fnd, error |-> None]
        ELSE IF Unwrap(segment) \notin RoleNames
        THEN [found |-> fnd, error |-> None]
        ELSE IF IsSome(fnd)
        THEN [found |-> fnd, error |-> Some(AtMostOneRole)]
        ELSE [found |-> Some(BoundAttr(attr, index)), error |-> None]

\* The loop from position `index` (0-based) on, with `found` as it stands.
RECURSIVE extract_attributes_from(_, _, _)
extract_attributes_from(attrs, index, fnd) ==
    IF index >= Len(attrs)
    THEN Ok(fnd)
    ELSE LET step == extract_attributes_step(fnd, attrs[index + 1], index)
         IN  IF IsSome(step.error)
             THEN Err(Unwrap(step.error))
             ELSE extract_attributes_from(attrs, index + 1, step.found)

\* extract_attributes(error_scope, attributes): Ok(None), Ok(Some(BoundAttr))
\* or Err.  An Ok carries the Option as its value.
extract_attributes(attrs) == extract_attributes_from(attrs, 0, None)

----------------------------------------------------------------------------
(* The attribute specification: extract_attributes on one declaration.     *)

\* The attributes a declaration may carry.
AttributeKinds ==
    {Attribute(<<"func">>, ""), Attribute(<<"func">>, "gd_self"),
     Attribute(<<"signal">>, ""), Attribute(<<"constant">>, ""),
     Attribute(<<"doc">>, ""), Attribute(<<"cfg">>, "a"),
     Attribute(<<"godot", "func">>, "")}

RECURSIVE SeqsUpTo(_, _)
SeqsUpTo(S, n) ==
    IF n = 0 THEN {<<>>}
    ELSE LET shorter == SeqsUpTo(S, n - 1)
         IN  shorter \cup {Append(q, x) : q \in shorter, x \in S}

AttrIdle ==
    /\ attr_pc = "idle"
    /\ attributes = <<>>
    /\ attr_index = 0
    /\ found = None
    /\ attr_return = None

AttrInit ==
    /\ attr_pc = "loop"
    /\ attributes \in SeqsUpTo(AttributeKinds, MaxAttrs)
    /\ attr_index = 0
    /\ found = None
    /\ attr_return = None

\* One iteration that does not return.
ExtractIterate ==
    /\ attr_pc = "loop"
    /\ attr_index < Len(attributes)
    /\ LET step == extract_attributes_step(found, attributes[attr_index + 1], attr_index)
       IN  /\ step.error = None
           /\ found' = step.found
    /\ attr_index' = attr_index + 1
    /\ UNCHANGED <<attr_pc, attributes, attr_return>>
    /\ UNCHANGED not_attr_vars

\* The iteration that finds a second role attribute returns the error.
ExtractBail ==
    /\ attr_pc = "loop"
    /\ attr_index < Len(attributes)
    /\ LET step == extract_attributes_step(found, attributes[attr_index + 1], attr_index)
       IN  /\ IsSome(step.error)
           /\ attr_return' = Some(Err(Unwrap(step.error)))
    /\ attr_pc' = "done"
    /\ UNCHANGED <<attributes, attr_index, found>>
    /\ UNCHANGED not_attr_vars

\* The loop is over: Ok(found).
ExtractReturn ==
    /\ attr_pc = "loop"
    /\ attr_index = Len(attributes)
    /\ attr_return' = Some(Ok(found))
    /\ attr_pc' = "done"
    /\ UNCHANGED <<attributes, attr_index, found>>
    /\ UNCHANGED not_attr_vars

AttrNext == ExtractIterate \/ ExtractBail \/ ExtractReturn

----------------------------------------------------------------------------
(* process_godot_fns: the #[func] and #[signal] members of a capability    *)
(* block.                                                                  *)

\* Vec::remove(index), index counted from 0.
RemoveAt(seq, index) ==
    [i \in 1..(Len(seq) - 1) |-> IF i <= index THEN seq[i] ELSE seq[i + 1]]

\* util::reduce_to_signature: the function without its body.
reduce_to_signature(method) ==
    [name |-> method.name, params |-> method.params, return_ty |-> method.return_ty]

\* BoundAttr::bail: the error "#[<attr_name>]: <msg>".
BoundAttrBail(attr, msg) == "#[" \o attr.attr_name \o "]: " \o msg

\* (mutant) a signal's return type goes unnoticed.
has_return_ty_unchecked(method) == FALSE

\* `method.return_ty.is_some()`
has_return_ty(method) == IsSome(method.return_ty)

\* (mutant) the receiver is taken from the end of the parameter list.
remove_last_param(params) == RemoveAt(params, Len(params) - 1)

\* `sig.params.inner.remove(0)`
remove_first_param(params) == RemoveAt(params, 0)

\* (mutant) the qualifier check passes over `async`.
has_qualifiers_but_async(method) ==
    \E q \in {"default", "const", "unsafe", "extern", "extern_abi"} : q \in method.qualifiers

\* `method.qualifiers.tk_default.is_some() || .. || extern_abi.is_some()`
has_qualifiers(method) ==
    \E q \in {"default", "const", "async", "unsafe", "extern", "extern_abi"} :
        q \in method.qualifiers

\* The body of the loop of process_godot_fns on the member at position
\* `index` (0-based): the member as rewritten, the three vectors, and the
\* error the function returns with, if any.
process_godot_fn(item, index, funcs, signals, removed) ==
    LET same == [item |-> item, func_definitions |-> funcs,
                 signal_definitions |-> signals, removed_indexes |-> removed,
                 error |-> None]
        extracted == extract_attributes(item.attributes)
    IN  IF item.kind # "Method" THEN same
        ELSE IF ~extracted.ok THEN [same EXCEPT !.error = Some(extracted.error)]
        ELSE IF Unwrap(extracted.value) = None THEN same
        ELSE
          LET attr == Unwrap(Unwrap(extracted.value))
              \* Remaining code no longer has attribute -- rest stays
              method == [item EXCEPT !.attributes = RemoveAt(@, attr.index)]
              stripped == [same EXCEPT !.item = method]
              fail(msg) == [stripped EXCEPT !.error = Some(BoundAttrBail(attr, msg))]
          IN  IF has_qualifiers(method)
              THEN fail("fn qualifiers are not allowed")
              ELSE IF method.generic_params
              THEN fail("generic fn parameters are not supported")
              ELSE CASE attr.ty.kind = "Func" ->
                          LET sig == reduce_to_signature(method)
                          IN  IF attr.ty.has_gd_self /\ Len(sig.params) = 0
                              THEN fail("with attribute key gd_self, the method must have a first parameter of type Gd<Self>")
                              ELSE [stripped EXCEPT !.func_definitions =
                                      Append(@,
                                        [func |-> IF attr.ty.has_gd_self
                                                  THEN [sig EXCEPT !.params = remove_first_param(@)]
                                                  ELSE sig,
                                         external_attributes |-> method.attributes,
                                         rename |-> attr.ty.rename,
                                         has_gd_self |-> attr.ty.has_gd_self])]
                     [] attr.ty.kind = "Signal" ->
                          IF has_return_ty(method)
                          THEN fail("return types are not supported")
                          ELSE [stripped EXCEPT
                                  !.signal_definitions =
                                      Append(@, [signature |-> reduce_to_signature(method),
                                                 external_attributes |-> method.attributes]),
                                  !.removed_indexes = Append(@, index)]
                     [] attr.ty.kind = "Const" ->
                          fail("#[constant] can only be used on associated constant")

\* (mutant) the removal in ascending order of the indexes.
RECURSIVE remove_indexes_ascending(_, _)
remove_indexes_ascending(items, removed) ==
    IF removed = <<>> THEN items
    ELSE remove_indexes_ascending(RemoveAt(items, removed[1]), Tail(removed))

\* `for index in removed_indexes.into_iter().rev() { body_items.remove(index) }`
RECURSIVE remove_indexes(_, _)
remove_indexes(items, removed) ==
    IF removed = <<>> THEN items
    ELSE remove_indexes(RemoveAt(items, removed[Len(removed)]),
                        SubSeq(removed, 1, Len(removed) - 1))

----------------------------------------------------------------------------
(* process_godot_constants: the #[constant] members.                       *)

\* The loop from position i (1-based) on: the members as rewritten, the
\* constants collected, and the error the function returns with, if any.
RECURSIVE process_godot_constants_from(_, _, _)
process_godot_constants_from(items, i, constant_signatures) ==
    IF i > Len(items)
    THEN [items |-> items, constants |-> constant_signatures, error |-> None]
    ELSE
      LET item == items[i]
          extracted == extract_attributes(item.attributes)
          fail(msg) == [items |-> items, constants |-> constant_signatures,
                        error |-> Some(msg)]
      IN  IF item.kind # "Constant"
          THEN process_godot_constants_from(items, i + 1, constant_signatures)
          ELSE IF ~extracted.ok THEN fail(extracted.error)
          ELSE IF Unwrap(extracted.value) = None
          THEN process_godot_constants_from(items, i + 1, constant_signatures)
          ELSE
            LET attr == Unwrap(Unwrap(extracted.value))
                constant == [item EXCEPT !.attributes = RemoveAt(@, attr.index)]
                rewritten == [items EXCEPT ![i] = constant]
            IN  CASE attr.ty.kind = "Func" ->
                       fail("#[func] can only be used on functions")
                  [] attr.ty.kind = "Signal" ->
                       fail("#[signal] can only be used on functions")
                  [] attr.ty.kind = "Const" ->
                       IF ~constant.initializer
                       THEN fail("exported constant must have initializer")
                       ELSE process_godot_constants_from(
                                rewritten, i + 1, Append(constant_signatures, constant))

process_godot_constants(items) == process_godot_constants_from(items, 1, <<>>)

----------------------------------------------------------------------------
(* transform_inherent_impl: codegen for `#[godot_api] impl MyType`.        *)

\* (mutant) the receiver is taken for a typed parameter too.
FnParamAny(param) == TRUE

\* `FnParam::Typed(param)`, as opposed to `FnParam::Receiver(_)`.
FnParamTyped(param) == param.kind = "Typed"

\* The typed parameters of a signature, in order: the loop over
\* signature.params that pushes param_types and param_names.
RECURSIVE typed_params_from(_, _)
typed_params_from(params, i) ==
    IF i > Len(params) THEN [param_types |-> <<>>, param_names |-> <<>>]
    ELSE LET rest == typed_params_from(params, i + 1)
         IN  IF FnParamTyped(params[i])
             THEN [param_types |-> <<params[i].ty>> \o rest.param_types,
                   param_names |-> <<params[i].name>> \o rest.param_names]
             ELSE rest

\* util::make_signature_tuple_type: (ret, P0, P1, ..).
make_signature_tuple_type(ret, param_types) == <<ret>> \o param_types

\* VarcallSignatureTuple::param_property_info(index, name): the property
\* info of parameter `index` (0-based) of the tuple, under `name`.
param_property_info(signature_tuple, index, param_name) ==
    [name |-> param_name, ty |-> signature_tuple[index + 2]]

\* (mutant) a signal registration that leaves the signal's #[cfg]s behind.
signal_registration_unguarded(signal) ==
    LET typed == typed_params_from(signal.signature.params, 1)
        signature_tuple == make_signature_tuple_type("()", typed.param_types)
    IN  [cfg_attrs |-> <<>>,
         name |-> signal.signature.name,
         parameters_count |-> Len(typed.param_names),
         parameters |->
            [i \in 1..Len(typed.param_names) |->
                param_property_info(signature_tuple, i - 1, typed.param_names[i])]]

\* What the loop over `signals` pushes for one signal: its #[cfg]s, its
\* name, the parameter count and the parameter-descriptor array.
signal_registration(signal) ==
    LET typed == typed_params_from(signal.signature.params, 1)
        signature_tuple == make_signature_tuple_type("()", typed.param_types)
        indexes == [i \in 1..Len(typed.param_types) |-> i - 1]
    IN  [cfg_attrs |-> extract_cfg_attrs(signal.external_attributes),
         name |-> signal.signature.name,
         parameters_count |-> Len(typed.param_names),
         parameters |->
            [i \in 1..Len(typed.param_names) |->
                param_property_info(signature_tuple, indexes[i], typed.param_names[i])]]

\* What the loop over `consts` pushes for one constant.
constant_registration(class_name, constant) ==
    [cfg_attrs |-> extract_cfg_attrs(constant.attributes),
     name |-> constant.name,
     value |-> <<class_name, constant.name>>]

\* class::make_method_registration: the registration of one #[func],
\* under the #[cfg]s among its remaining attributes.
make_method_registration(class_name, func_def) ==
    [cfg_attrs |-> extract_cfg_attrs(func_def.external_attributes),
     name |-> IF IsSome(func_def.rename) THEN Unwrap(func_def.rename)
              ELSE func_def.func.name,
     calls |-> <<class_name, func_def.func.name>>,
     params |-> func_def.func.params,
     has_gd_self |-> func_def.has_gd_self]

\* A UserMethodBinds entry left without its init level.
UserMethodBindsPluginPartial(class_name) ==
    [class_name |-> class_name,
     component |->
        [kind |-> "UserMethodBinds",
         generated_register_fn |-> Callback("register_user_binds", class_name)]]

\* The plugin_add! entry of a capability block.
UserMethodBindsPlugin(class_name) ==
    [class_name |-> class_name,
     component |->
        [kind |-> "UserMethodBinds",
         generated_register_fn |-> Callback("register_user_binds", class_name)],
     init_level |-> "INIT_LEVEL"]

\* A capability block emitting no marker impls for its class.
InherentResultImplsUnmarked(class_name) ==
    <<>>

\* The trait impls transform_inherent_impl emits for the class.
InherentResultImpls(class_name) ==
    <<AdapterImpl(<<>>, "ImplementsGodotApi", class_name, ""),
      AdapterImpl(<<>>, "Cannot_export_without_godot_api_impl", class_name, "")>>

\* transform_inherent_impl after process_godot_fns succeeded with `funcs`
\* and `signals`, on the members `items` it left.
inherent_result(class_name, items, funcs, signals) ==
    LET consts == process_godot_constants(items)
    IN  IF IsSome(consts.error) THEN Err(Unwrap(consts.error))
        ELSE IF \E i \in 1..Len(consts.constants) : ~consts.constants[i].initializer
        THEN Err("exported const should have initializer")
        ELSE Ok([decl |-> consts.items,
                 methods_registration |->
                    [i \in 1..Len(funcs) |-> make_method_registration(class_name, funcs[i])],
                 signals |->
                    [i \in 1..Len(signals) |-> signal_registration(signals[i])],
                 register_constants |->
                    [i \in 1..Len(consts.constants) |->
                        constant_registration(class_name, consts.constants[i])],
                 impls |-> InherentResultImpls(class_name),
                 plugin |-> UserMethodBindsPlugin(class_name)])

\* error[E0599]/[E0425]: a surviving registration names a member of the
\* block that the configuration compiled out.
UnresolvedItems(result, cfg) ==
    LET alive == {result.decl[i].name : i \in {i \in 1..Len(result.decl) :
                        Survives(result.decl[i].attributes, cfg)}}
        refs(regs, Name(_)) ==
            {Name(regs[i]) : i \in {i \in 1..Len(regs) : Survives(regs[i].cfg_attrs, cfg)}}
    IN  (refs(result.methods_registration, LAMBDA r : r.calls[2])
           \cup refs(result.register_constants, LAMBDA r : r.value[2])) \ alive

\* error[E0308]: a signal's descriptor array is not of the declared length.
MismatchedArrays(result, cfg) ==
    {result.signals[i].name : i \in {i \in 1..Len(result.signals) :
        /\ Survives(result.signals[i].cfg_attrs, cfg)
        /\ Len(result.signals[i].parameters) # result.signals[i].parameters_count}}

\* The diagnostics of compiling the result of transform_inherent_impl.
InherentCompileErrors(result, cfg) ==
    [duplicate_definitions |-> DuplicateDefinitions(result.decl, cfg),
     conflicting_impls |-> ConflictingImpls(result.impls, cfg),
     unresolved |-> UnresolvedItems(result, cfg),
     mismatched |-> MismatchedArrays(result, cfg)]

InherentBuildOk(diagnostics) ==
    /\ BuildOk(diagnostics)
    /\ diagnostics.unresolved = {}
    /\ diagnostics.mismatched = {}

\* What the compiled __register_methods and __register_constants register.
Registrations(result, cfg) ==
    [methods |-> SurvivingArms(result.methods_registration, cfg),
     signals |-> SurvivingArms(result.signals, cfg),
     constants |-> SurvivingArms(result.register_constants, cfg)]

----------------------------------------------------------------------------
(* The inputs of the capability-block specifications.                      *)

\* The names of the members, by position in the block.
MemberNames == <<"m1", "m2", "m3", "m4", "m5", "m6">>

Receiver == [kind |-> "Receiver", name |-> "self", ty |-> "Self"]
Typed(name, ty) == [kind |-> "Typed", name |-> name, ty |-> ty]

Method(attrs, qualifiers, generic_params, params, return_ty) ==
    [kind |-> "Method", name |-> "", attributes |-> attrs, qualifiers |-> qualifiers,
     generic_params |-> generic_params, params |-> params, return_ty |-> return_ty,
     initializer |-> FALSE]

Constant(attrs, initializer) ==
    [kind |-> "Constant", name |-> "", attributes |-> attrs, qualifiers |-> {},
     generic_params |-> FALSE, params |-> <<>>, return_ty |-> None,
     initializer |-> initializer]

FuncAttr == Attribute(<<"func">>, "")
GdSelfAttr == Attribute(<<"func">>, "gd_self")
SignalAttr == Attribute(<<"signal">>, "")
ConstantAttr == Attribute(<<"constant">>, "")
DocAttr == Attribute(<<"doc">>, "")
CfgAttr(p) == Attribute(<<"cfg">>, p)

\* The members of a block of several members.
BlockMembers ==
    {Method(<<>>, {}, FALSE, <<Receiver>>, None),
     Method(<<FuncAttr>>, {}, FALSE, <<Receiver>>, Some("i32")),
     Method(<<CfgAttr("a"), FuncAttr>>, {}, FALSE, <<Receiver, Typed("p1", "TypeA")>>, None),
     Method(<<SignalAttr>>, {}, FALSE, <<>>, None),
     Method(<<CfgAttr("a"), SignalAttr>>, {}, FALSE, <<Typed("p1", "TypeA")>>, None),
     Method(<<SignalAttr, CfgAttr("not_a")>>, {}, FALSE,
            <<Typed("p1", "TypeA"), Typed("p2", "TypeB")>>, None),
     Method(<<DocAttr, SignalAttr, CfgAttr("b")>>, {}, FALSE,
            <<Receiver, Typed("p2", "TypeB")>>, None),
     Method(<<SignalAttr>>, {}, FALSE, <<>>, Some("i32")),
     Method(<<FuncAttr, SignalAttr>>, {}, FALSE, <<>>, None),
     Method(<<FuncAttr>>, {"unsafe"}, FALSE, <<>>, None),
     Method(<<GdSelfAttr>>, {}, FALSE, <<>>, None),
     Constant(<<>>, TRUE),
     Constant(<<ConstantAttr>>, TRUE),
     Constant(<<CfgAttr("a"), ConstantAttr>>, TRUE),
     Constant(<<ConstantAttr, CfgAttr("b")>>, TRUE),
     Constant(<<ConstantAttr>>, FALSE)}

\* The shapes of a single method: every combination of attributes,
\* qualifier, generic parameters, parameters and return type.
MethodAttrLists ==
    {<<>>, <<FuncAttr>>, <<GdSelfAttr>>, <<SignalAttr>>, <<ConstantAttr>>,
     <<CfgAttr("a"), SignalAttr>>, <<SignalAttr, CfgAttr("not_a")>>,
     <<DocAttr, FuncAttr, CfgAttr("b")>>, <<FuncAttr, SignalAttr>>,
     <<SignalAttr, DocAttr, SignalAttr>>}

MethodQualifiers ==
    {{}, {"default"}, {"const"}, {"async"}, {"unsafe"}, {"extern"},
     {"extern", "extern_abi"}}

ParamLists ==
    {<<>>, <<Receiver>>, <<Receiver, Typed("p1", "TypeA")>>,
     <<Typed("p1", "TypeA"), Typed("p2", "TypeB")>>,
     <<Typed("p2", "TypeB"), Receiver, Typed("p1", "TypeA")>>,
     <<Typed("p1", "TypeA"), Typed("p2", "TypeB"), Typed("p3", "TypeA")>>}

SingleMembers ==
    {Method(a, q, g, p, r) :
        a \in MethodAttrLists, q \in MethodQualifiers, g \in BOOLEAN,
        p \in ParamLists, r \in {None, Some("i32")}}

----------------------------------------------------------------------------
(* The capability-block specifications: expand, compile, register.         *)

InherentIdle ==
    /\ inherent_pc = "idle"
    /\ input_decl = <<>>
    /\ body_items = <<>>
    /\ func_definitions = <<>>
    /\ signal_definitions = <<>>
    /\ removed_indexes = <<>>
    /\ inherent_return = None
    /\ registered = None

InherentInit ==
    /\ inherent_pc = "fns"
    /\ input_decl = <<>>
    /\ body_items = <<>>
    /\ func_definitions = <<>>
    /\ signal_definitions = <<>>
    /\ removed_indexes = <<>>
    /\ inherent_return = None
    /\ registered = None

\* The loop of process_godot_fns reads the next member of the block, one of
\* `members`, in a block of at most `max` members.  An error returns from
\* process_godot_fns and, by `?`, from transform_inherent_impl.
FnsItemOf(members, max) ==
    /\ inherent_pc = "fns"
    /\ Len(input_decl) < max
    /\ \E member \in members :
          LET item == [member EXCEPT !.name = MemberNames[Len(input_decl) + 1]]
              step == process_godot_fn(item, Len(body_items), func_definitions,
                                       signal_definitions, removed_indexes)
          IN  /\ input_decl' = Append(input_decl, item)
              /\ body_items' = Append(body_items, step.item)
              /\ func_definitions' = step.func_definitions
              /\ signal_definitions' = step.signal_definitions
              /\ removed_indexes' = step.removed_indexes
              /\ IF IsSome(step.error)
                 THEN /\ inherent_pc' = "returned"
                      /\ inherent_return' = Some(Err(Unwrap(step.error)))
                 ELSE UNCHANGED <<inherent_pc, inherent_return>>
    /\ UNCHANGED <<registered, compile_vars>>
    /\ UNCHANGED not_inherent_vars

FnsItem == FnsItemOf(BlockMembers, MaxMembers)

FnsSingleItem == FnsItemOf(SingleMembers, 1)

\* The block has no more members: process_godot_fns removes the signals and
\* returns, and transform_inherent_impl runs to its end.
InherentEmit ==
    /\ inherent_pc = "fns"
    /\ LET items == remove_indexes(body_items, removed_indexes)
           ret == inherent_result(ClassName, items, func_definitions, signal_definitions)
       IN  /\ body_items' = IF ret.ok THEN Unwrap(ret.value).decl ELSE items
           /\ inherent_return' = Some(ret)
    /\ inherent_pc' = "returned"
    /\ UNCHANGED <<input_decl, func_definitions, signal_definitions, removed_indexes,
                   registered, compile_vars>>
    /\ UNCHANGED not_inherent_vars

\* The emitted code is compiled under one build configuration, and the
\* class's registration functions run.
InherentCompile ==
    /\ inherent_pc = "returned"
    /\ Unwrap(inherent_return).ok
    /\ \E cfg \in Configs :
          LET result == Unwrap(Unwrap(inherent_return).value)
              diagnostics == InherentCompileErrors(result, cfg)
          IN  /\ config' = cfg
              /\ build' = Some(diagnostics)
              /\ registered' = IF InherentBuildOk(diagnostics)
                               THEN Some(Registrations(result, cfg))
                               ELSE None
    /\ inherent_pc' = "compiled"
    /\ UNCHANGED <<input_decl, body_items, func_definitions, signal_definitions,
                   removed_indexes, inherent_return>>
    /\ UNCHANGED not_inherent_vars

InherentNext == FnsItem \/ InherentEmit \/ InherentCompile

SingleNext == FnsSingleItem \/ InherentEmit \/ InherentCompile

----------------------------------------------------------------------------
(* attribute_godot_api on the blocks of an extension crate, the crate's    *)
(* compilation, and the plugin registry its plugin_add! entries fill.      *)

\* The loop of transform_trait_impl from member i on.
RECURSIVE trait_loop(_, _, _, _, _)
trait_loop(impl, i, f, class_name, api42) ==
    IF i > Len(impl) THEN f
    ELSE trait_loop(impl, i + 1, trait_item(f, impl[i], i, class_name, api42),
                    class_name, api42)

\* transform_trait_impl(original_impl).
transform_trait_impl(class_name, impl, api42) ==
    Ok(TraitResult(impl, trait_loop(impl, 1, TraitFrame0, class_name, api42), class_name))

\* The loop of process_godot_fns from member i on (1-based), then the rest
\* of transform_inherent_impl.
RECURSIVE inherent_loop(_, _, _, _, _, _)
inherent_loop(class_name, items, i, funcs, signals, removed) ==
    IF i > Len(items)
    THEN inherent_result(class_name, remove_indexes(items, removed), funcs, signals)
    ELSE LET step == process_godot_fn(items[i], i - 1, funcs, signals, removed)
         IN  IF IsSome(step.error) THEN Err(Unwrap(step.error))
             ELSE inherent_loop(class_name, [items EXCEPT ![i] = step.item], i + 1,
                                step.func_definitions, step.signal_definitions,
                                step.removed_indexes)

\* transform_inherent_impl(decl).
transform_inherent_impl(class_name, items) ==
    inherent_loop(class_name, items, 1, <<>>, <<>>, <<>>)

\* The Self types that are not a path.
NonPathTypes == {"(Player, Mob)"}

\* `decl.self_ty.as_path()`
as_path(self_ty) == IF self_ty \in NonPathTypes THEN None ELSE Some(self_ty)

\* (mutant) attribute_godot_api without the test of impl_generic_params.
attribute_godot_api_generic(decl, api42) ==
    IF decl.kind # "Impl"
    THEN Err("#[godot_api] can only be applied on impl blocks")
    ELSE IF as_path(decl.self_ty) = None
    THEN Err("invalid Self type for #[godot_api] impl")
    ELSE IF IsSome(decl.trait_ty)
    THEN transform_trait_impl(decl.self_ty, decl.body_items, api42)
    ELSE transform_inherent_impl(decl.self_ty, decl.body_items)

\* attribute_godot_api on one declaration of the crate.
attribute_godot_api(decl, api42) ==
    IF decl.kind # "Impl"
    THEN Err("#[godot_api] can only be applied on impl blocks")
    ELSE IF decl.impl_generic_params
    THEN Err("#[godot_api] currently does not support generic parameters")
    ELSE IF as_path(decl.self_ty) = None
    THEN Err("invalid Self type for #[godot_api] impl")
    ELSE IF IsSome(decl.trait_ty)
    THEN transform_trait_impl(decl.self_ty, decl.body_items, api42)
    ELSE transform_inherent_impl(decl.self_ty, decl.body_items)

\* Every impl the compiler sees for one expanded block: the user's own
\* trait impl, re-emitted, and the generated ones.
BlockImpls(block, result) ==
    (IF IsSome(block.trait_ty)
     THEN <<AdapterImpl(<<>>, Unwrap(block.trait_ty), block.self_ty, "")>>
     ELSE <<>>) \o result.impls

\* The impls of all expanded blocks of the crate, in order.
RECURSIVE CrateImpls(_, _, _)
CrateImpls(blocks, results, i) ==
    IF i > Len(blocks) THEN <<>>
    ELSE BlockImpls(blocks[i], Unwrap(results[i].value)) \o CrateImpls(blocks, results, i + 1)

\* The ClassPlugin value a block's plugin_add! entry holds once compiled.
CompiledPlugin(p, cfg) ==
    IF p.component.kind = "UserVirtuals" THEN PluginValue(p, cfg) ELSE p

\* Whether the crate builds: every expansion succeeds and the compiler
\* finds no error in any block nor two impls of one trait for one class.
CrateBuilds(blocks, results, cfg) ==
    /\ \A i \in 1..Len(blocks) : results[i].ok
    /\ ConflictingImpls(CrateImpls(blocks, results, 1), cfg) = {}
    /\ \A i \in 1..Len(blocks) :
          IF IsSome(blocks[i].trait_ty)
          THEN BuildOk(CompileErrors(Unwrap(results[i].value), cfg))
          ELSE InherentBuildOk(InherentCompileErrors(Unwrap(results[i].value), cfg))

\* The classes of the crate.
Classes == {"Player", "Mob"}

\* The base trait of each class: the one virtual trait its type may
\* implement.
BaseTrait(class_name) == IF class_name = "Player" THEN "IArea2D" ELSE "IRigidBody2D"

Named(member, name) == [member EXCEPT !.name = name]

\* The bodies of the crate's capability blocks.
InherentBodies ==
    {<<Named(Method(<<SignalAttr>>, {}, FALSE, <<>>, None), "hit"),
       Named(Method(<<FuncAttr>>, {}, FALSE, <<Receiver>>, None), "start")>>,
     <<Named(Constant(<<CfgAttr("a"), ConstantAttr>>, TRUE), "SPEED")>>,
     <<Named(Method(<<FuncAttr>>, {}, FALSE, <<Receiver>>, None), "start"),
       Named(Method(<<SignalAttr>>, {}, FALSE, <<>>, Some("i32")), "hit")>>}

\* The bodies of the crate's virtual-override blocks.
TraitBodies ==
    {<<[name |-> "init", attributes |-> <<>>], [name |-> "ready", attributes |-> <<>>]>>,
     <<[name |-> "to_string", attributes |-> <<CfgAttr("a")>>]>>}

\* A declaration under #[godot_api].
Declaration(kind, impl_generic_params, self_ty, trait_ty, items) ==
    [kind |-> kind, impl_generic_params |-> impl_generic_params, self_ty |-> self_ty,
     trait_ty |-> trait_ty, body_items |-> items]

\* Declarations #[godot_api] does not accept: a struct, a generic impl, an
\* impl of a tuple type.
RejectedDeclarations ==
    {Declaration("Struct", FALSE, "Player", None, <<>>),
     Declaration("Impl", TRUE, "Player", None, <<>>),
     Declaration("Impl", FALSE, "(Player, Mob)", None, <<>>)}

\* The declarations under #[godot_api] a crate may hold.
Blocks ==
    {Declaration("Impl", FALSE, c, None, b) : c \in Classes, b \in InherentBodies}
      \cup {Declaration("Impl", FALSE, c, Some(BaseTrait(c)), b) :
                c \in Classes, b \in TraitBodies}
      \cup RejectedDeclarations

RegistryIdle ==
    /\ registry_pc = "idle"
    /\ crate = <<>>
    /\ plugins = <<>>
    /\ pending = {}
    /\ registry = <<>>
    /\ installed = {}
    /\ unloaded = {}

RegistryInit ==
    /\ registry_pc = "source"
    /\ crate = <<>>
    /\ plugins = <<>>
    /\ pending = {}
    /\ registry = <<>>
    /\ installed = {}
    /\ unloaded = {}

\* The crate's author writes one more #[godot_api] block.
WriteBlock ==
    /\ registry_pc = "source"
    /\ Len(crate) < MaxBlocks
    /\ \E block \in Blocks : crate' = Append(crate, block)
    /\ UNCHANGED <<registry_pc, plugins, pending, registry, installed, unloaded,
                   compile_vars>>
    /\ UNCHANGED not_registry_vars

\* The crate is built under one configuration: every block is expanded and
\* the result compiled.  A failed build yields no library.
BuildCrate ==
    /\ registry_pc = "source"
    /\ \E cfg \in Configs, api42 \in BOOLEAN :
          LET results == [i \in 1..Len(crate) |-> attribute_godot_api(crate[i], api42)]
          IN  /\ config' = cfg
              /\ IF CrateBuilds(crate, results, cfg)
                 THEN /\ registry_pc' = "library"
                      /\ plugins' =
                            [i \in 1..Len(crate) |->
                                CompiledPlugin(Unwrap(results[i].value).plugin, cfg)]
                      /\ pending' = 1..Len(crate)
                 ELSE /\ registry_pc' = "failed"
                      /\ UNCHANGED <<plugins, pending>>
    /\ UNCHANGED <<crate, registry, installed, unloaded, build>>
    /\ UNCHANGED not_registry_vars

\* The library is loaded: the initializer of one plugin_add! entry runs, in
\* no particular order, and appends its ClassPlugin to the registry.
RunInitializer ==
    /\ registry_pc = "library"
    /\ \E i \in pending :
          /\ registry' = Append(registry, plugins[i])
          /\ pending' = pending \ {i}
    /\ UNCHANGED <<registry_pc, crate, plugins, installed, unloaded, compile_vars>>
    /\ UNCHANGED not_registry_vars

\* Every initializer has run.
InitializersDone == pending = {}

\* The host's load pass begins: it reads the registry, once.
HostLoad ==
    /\ registry_pc = "library"
    /\ InitializersDone
    /\ registry_pc' = "loading"
    /\ UNCHANGED <<crate, plugins, pending, registry, installed, unloaded, compile_vars>>
    /\ UNCHANGED not_registry_vars

\* A load pass installing classes whether or not it read a bundle of theirs.
InstallableUnread ==
    Classes \ installed

\* The classes the load pass may install: those it read from the registry
\* and has not installed yet.
Installable ==
    {registry[i].class_name : i \in 1..Len(registry)} \ installed

\* The load pass installs the dispatch table of one class.
InstallClass ==
    /\ registry_pc = "loading"
    /\ \E c \in Installable : installed' = installed \cup {c}
    /\ UNCHANGED <<registry_pc, crate, plugins, pending, registry, unloaded, compile_vars>>
    /\ UNCHANGED not_registry_vars

\* The load pass is over once every class it read is installed.
HostLoaded ==
    /\ registry_pc = "loading"
    /\ Installable = {}
    /\ registry_pc' = "loaded"
    /\ UNCHANGED <<crate, plugins, pending, registry, installed, unloaded, compile_vars>>
    /\ UNCHANGED not_registry_vars

\* The classes the host may unload: the installed ones it has not unloaded.
Unloadable == installed \ unloaded

\* The host unloads the extension, one class at a time.
UnloadClass ==
    /\ registry_pc = "loaded"
    /\ \E c \in Unloadable : unloaded' = unloaded \cup {c}
    /\ UNCHANGED <<registry_pc, crate, plugins, pending, registry, installed, compile_vars>>
    /\ UNCHANGED not_registry_vars

RegistryNext ==
    \/ WriteBlock \/ BuildCrate \/ RunInitializer \/ HostLoad \/ InstallClass
    \/ HostLoaded \/ UnloadClass

----------------------------------------------------------------------------
(* special_cases.rs: the cases of the Godot class API where the generated   *)
(* bindings deviate.  A name is the sequence of the pieces it is written    *)
(* from: a leading "OpenXR" of a class name and each leading "get_" of a    *)
(* method name are pieces of their own.                                     *)

\* The string a name spells.
RECURSIVE Join(_)
Join(name) == IF name = <<>> THEN "" ELSE Head(name) \o Join(Tail(name))

\* `name.starts_with(prefix)`
starts_with(name, prefix) == name # <<>> /\ Head(name) = prefix

\* The pieces that begin with an ASCII lowercase letter.
LowercasePieces == {"int", "float", "bool"}

\* `c.is_ascii_lowercase()` for the first character of a non-empty name.
first_is_ascii_lowercase(name) == Head(name) \in LowercasePieces

\* codegen_special_cases::is_method_excluded(method, false, ctx): what the
\* generator's context says of the method.
is_method_excluded(ctx) == ctx.method_excluded

\* codegen_special_cases::is_builtin_method_excluded(method).
is_builtin_method_excluded(ctx) == ctx.builtin_method_excluded

\* The (class, method) arms of is_deleted.
DeletedMethods ==
    {<<"Object", "get_instance_id">>, <<"ResourceLoader", "load_threaded_get">>,
     <<"ResourceLoader", "load_threaded_get_status">>,
     <<"ResourceLoader", "load_threaded_request">>}

\* (mutant) Object::get_instance_id is left in, as Object::to_string is.
is_deleted_but_instance_id(class_name, method, ctx) ==
    \/ is_method_excluded(ctx)
    \/ <<Join(class_name), Join(method)>> \in DeletedMethods \ {<<"Object", "get_instance_id">>}

is_deleted(class_name, method, ctx) ==
    IF is_method_excluded(ctx) THEN TRUE
    ELSE <<Join(class_name), Join(method)>> \in DeletedMethods

\* The arms of is_class_experimental.
ExperimentalClasses ==
    {"GraphEdit", "GraphNode", "NavigationAgent2D", "NavigationAgent3D",
     "NavigationLink2D", "NavigationLink3D", "NavigationMesh",
     "NavigationMeshSourceGeometryData3D", "NavigationObstacle2D",
     "NavigationObstacle3D", "NavigationPathQueryParameters2D",
     "NavigationPathQueryParameters3D", "NavigationPathQueryResult2D",
     "NavigationPathQueryResult3D", "NavigationPolygon", "NavigationRegion2D",
     "NavigationRegion3D", "NavigationServer2D", "NavigationServer3D",
     "SkeletonModification2D", "SkeletonModification2DCCDIK",
     "SkeletonModification2DFABRIK", "SkeletonModification2DJiggle",
     "SkeletonModification2DLookAt", "SkeletonModification2DPhysicalBones",
     "SkeletonModification2DStackHolder", "SkeletonModification2DTwoBoneIK",
     "SkeletonModificationStack2D", "StreamPeerGZIP", "TextureRect"}

is_class_experimental(class_name) == Join(class_name) \in ExperimentalClasses

\* The hardcoded arms of is_class_deleted.
DeletedClasses ==
    {"JavaClassWrapper", "JNISingleton", "JavaClass", "JavaScriptBridge",
     "JavaScriptObject", "Thread", "Mutex", "Semaphore", "FramebufferCacheRD",
     "GDScriptEditorTranslationParserPlugin", "GDScriptNativeClass",
     "GLTFDocumentExtensionPhysics", "GLTFDocumentExtensionTextureWebP",
     "GodotPhysicsServer2D", "GodotPhysicsServer3D", "IPUnix", "MovieWriterMJPEG",
     "MovieWriterPNGWAV", "ResourceFormatImporterSaver", "UniformSetCacheRD"}

\* (mutant) is_class_deleted without the test of the experimental classes.
is_class_deleted_with_experimental(class_name, cfg) ==
    IF cfg.before_api_4_2 /\ cfg.target_os_macos /\ starts_with(class_name, "OpenXR")
    THEN TRUE
    ELSE IF cfg.before_api_4_2 /\ Join(class_name) = "ThemeDB" THEN TRUE
    ELSE Join(class_name) \in DeletedClasses

\* is_class_deleted under the build configuration `cfg`: the features
\* experimental-godot-api, before_api = "4.2" and target_os = "macos".
is_class_deleted(class_name, cfg) ==
    IF ~cfg.experimental_godot_api /\ is_class_experimental(class_name) THEN TRUE
    ELSE IF cfg.before_api_4_2 /\ cfg.target_os_macos /\ starts_with(class_name, "OpenXR")
    THEN TRUE
    ELSE IF cfg.before_api_4_2 /\ Join(class_name) = "ThemeDB" THEN TRUE
    ELSE Join(class_name) \in DeletedClasses

\* The arms of is_private.
PrivateMethods ==
    {<<"Object", "to_string">>, <<"RefCounted", "init_ref">>,
     <<"RefCounted", "reference">>, <<"RefCounted", "unreference">>,
     <<"Object", "notification">>}

is_private(class_or_builtin_ty, godot_method_name) ==
    <<Join(class_or_builtin_ty), Join(godot_method_name)>> \in PrivateMethods

is_named_accessor_in_table(class_or_builtin_ty, godot_method_name) ==
    is_private(class_or_builtin_ty, godot_method_name)

\* class_name is an Option: None for a global or utilities function.
is_excluded_from_default_params(class_name, godot_method_name) ==
    LET name == IF IsSome(class_name) THEN Join(Unwrap(class_name)) ELSE ""
    IN  <<name, Join(godot_method_name)>> \in {<<"Object", "notification">>}

\* The arms of keeps_get_prefix.
KeptGetPrefix ==
    {<<"Object", "get_class">>, <<"Object", "get_instance_id">>,
     <<"Object", "get_script">>, <<"Object", "get_script_instance">>,
     <<"Object", "get_incoming_connections">>, <<"Object", "get_meta_list">>,
     <<"Object", "get_method_list">>, <<"Object", "get_property_list">>,
     <<"Object", "get_signal_list">>, <<"FileAccess", "get_16">>,
     <<"FileAccess", "get_32">>, <<"FileAccess", "get_64">>, <<"FileAccess", "get_8">>,
     <<"FileAccess", "get_as_text">>, <<"FileAccess", "get_csv_line">>,
     <<"FileAccess", "get_double">>, <<"FileAccess", "get_error">>,
     <<"FileAccess", "get_float">>, <<"FileAccess", "get_line">>,
     <<"FileAccess", "get_open_error">>, <<"FileAccess", "get_pascal_string">>,
     <<"FileAccess", "get_real">>, <<"FileAccess", "get_var">>,
     <<"StreamPeer", "get_16">>, <<"StreamPeer", "get_32">>,
     <<"StreamPeer", "get_64">>, <<"StreamPeer", "get_8">>,
     <<"StreamPeer", "get_double">>, <<"StreamPeer", "get_float">>,
     <<"StreamPeer", "get_string">>, <<"StreamPeer", "get_u16">>,
     <<"StreamPeer", "get_u32">>, <<"StreamPeer", "get_u64">>,
     <<"StreamPeer", "get_u8">>, <<"StreamPeer", "get_utf8_string">>,
     <<"StreamPeer", "get_var">>, <<"AnimationPlayer", "get_queue">>}

keeps_get_prefix(class_name, method) ==
    <<Join(class_name), Join(method)>> \in KeptGetPrefix

is_builtin_deleted(class_name, ctx) == is_builtin_method_excluded(ctx)

\* `name.chars().next().unwrap().is_ascii_lowercase()`: Some(answer), or
\* None when the unwrap panics.
is_builtin_scalar(name) ==
    IF name = <<>> THEN None ELSE Some(first_is_ascii_lowercase(name))

\* `name == "Nil" || is_builtin_scalar(name)`
is_builtin_type_deleted(class_name) ==
    IF Join(class_name) = "Nil" THEN Some(TRUE) ELSE is_builtin_scalar(class_name)

\* (mutant) no method is renamed.
maybe_renamed_never(class_name, godot_method_name) == godot_method_name

maybe_renamed(class_name, godot_method_name) ==
    IF Join(godot_method_name) = "new" THEN <<"instantiate">> ELSE godot_method_name

\* The default of the accessor-prefix rule: a leading "get_" is stripped
\* unless keeps_get_prefix retains it.
strip_get_prefix(class_name, method_name) ==
    IF starts_with(method_name, "get_") /\ ~keeps_get_prefix(class_name, method_name)
    THEN Tail(method_name) ELSE method_name

\* A method's public name: the rename table, then the accessor-prefix rule.
public_name(class_name, godot_method_name) ==
    strip_get_prefix(class_name, maybe_renamed(class_name, godot_method_name))

\* What every function of the rule set answers on one class and one method.
consult(class_name, method, ctx, cfg) ==
    [is_deleted |-> is_deleted(class_name, method, ctx),
     is_class_deleted |-> is_class_deleted(class_name, cfg),
     is_class_experimental |-> is_class_experimental(class_name),
     is_named_accessor_in_table |-> is_named_accessor_in_table(class_name, method),
     is_private |-> is_private(class_name, method),
     is_excluded_from_default_params |->
        is_excluded_from_default_params(Some(class_name), method),
     keeps_get_prefix |-> keeps_get_prefix(class_name, method),
     is_builtin_deleted |-> is_builtin_deleted(class_name, ctx),
     is_builtin_type_deleted |-> is_builtin_type_deleted(class_name),
     is_builtin_scalar |-> is_builtin_scalar(class_name),
     maybe_renamed |-> maybe_renamed(class_name, method)]

\* The generator on one method of one class: classes are filtered before
\* their methods; a private method is generated off the public surface and
\* is reachable through the named-accessor table.
generate(class_name, method, ctx, cfg) ==
    IF is_class_deleted(class_name, cfg)
    THEN [class |-> FALSE, method |-> "absent", accessor |-> FALSE]
    ELSE IF is_deleted(class_name, method, ctx)
    THEN [class |-> TRUE, method |-> "absent", accessor |-> FALSE]
    ELSE [class |-> TRUE,
          method |-> IF is_private(class_name, method) THEN "private" ELSE "public",
          accessor |-> is_named_accessor_in_table(class_name, method)]

\* The build configurations.
Features ==
    [experimental_godot_api : BOOLEAN, before_api_4_2 : BOOLEAN, target_os_macos : BOOLEAN]

\* The generator's contexts.
Contexts == [method_excluded : BOOLEAN, builtin_method_excluded : BOOLEAN]

\* The class and builtin type names asked about: the empty name, the names
\* the tables hold, and others.
TyNames ==
    {<<>>, <<"int">>, <<"float">>, <<"bool">>, <<"OpenXR", "Interface">>,
     <<"OpenXR", "Action">>}
      \cup {<<c>> : c \in ExperimentalClasses \cup DeletedClasses}
      \cup {<<c>> : c \in {"Object", "RefCounted", "FileAccess", "StreamPeer",
                           "AnimationPlayer", "ResourceLoader", "GDScript", "ThemeDB",
                           "Node", "Nil", "Vector2"}}

\* The method names asked about.
MethodNames ==
    {<<>>, <<"new">>, <<"instantiate">>, <<"to_string">>, <<"notification">>,
     <<"init_ref">>, <<"load_threaded_get">>, <<"set_name">>,
     <<"get_", "instance_id">>, <<"get_", "class">>, <<"get_", "32">>,
     <<"get_", "queue">>, <<"get_", "position">>, <<"get_", "new">>,
     <<"get_", "get_", "var">>}

RulesIdle ==
    /\ rules_pc = "idle"
    /\ features = [experimental_godot_api |-> FALSE, before_api_4_2 |-> FALSE,
                   target_os_macos |-> FALSE]
    /\ ty_name = <<>>
    /\ ty_method = <<>>
    /\ context = [method_excluded |-> FALSE, builtin_method_excluded |-> FALSE]
    /\ answers = <<>>
    /\ public_names = <<>>
    /\ output = None

\* The generator is built under one configuration.
RulesInit ==
    /\ rules_pc = "ready"
    /\ features \in Features
    /\ ty_name = <<>>
    /\ ty_method = <<>>
    /\ context = [method_excluded |-> FALSE, builtin_method_excluded |-> FALSE]
    /\ answers = <<>>
    /\ public_names = <<>>
    /\ output = None

\* The generator comes to one method of one class and consults the rule set.
Consult ==
    /\ rules_pc = "ready"
    /\ \E class_name \in TyNames, method \in MethodNames, ctx \in Contexts :
          /\ ty_name' = class_name
          /\ ty_method' = method
          /\ context' = ctx
          /\ answers' = <<consult(class_name, method, ctx, features)>>
          /\ public_names' = <<public_name(class_name, method)>>
    /\ rules_pc' = "consulted"
    /\ UNCHANGED <<features, output>>
    /\ UNCHANGED not_rules_vars

\* The rule set is consulted once more on the same class and method.
ConsultAgain ==
    /\ rules_pc = "consulted"
    /\ Len(answers) < MaxConsultations
    /\ answers' = Append(answers, consult(ty_name, ty_method, context, features))
    /\ UNCHANGED <<rules_pc, features, ty_name, ty_method, context,
                   public_names, output>>
    /\ UNCHANGED not_rules_vars

\* The public-name computation is applied to its own result.
RenameAgain ==
    /\ rules_pc = "consulted"
    /\ Len(public_names) < MaxConsultations
    /\ public_names' =
          Append(public_names, public_name(ty_name, public_names[Len(public_names)]))
    /\ UNCHANGED <<rules_pc, features, ty_name, ty_method, context, answers,
                   output>>
    /\ UNCHANGED not_rules_vars

\* The generator emits, or does not emit, the class and the method.
Generate ==
    /\ rules_pc = "consulted"
    /\ output' = Some(generate(ty_name, ty_method, context, features))
    /\ rules_pc' = "generated"
    /\ UNCHANGED <<features, ty_name, ty_method, context, answers, public_names>>
    /\ UNCHANGED not_rules_vars

RulesNext == Consult \/ ConsultAgain \/ RenameAgain \/ Generate

----------------------------------------------------------------------------
(* The specifications.                                                     *)

\* A virtual-override block: expanded, compiled, looked up.
InitTrait == TraitInit /\ AttrIdle /\ InherentIdle /\ RegistryIdle /\ RulesIdle
    /\ CompileIdle

SpecTrait == InitTrait /\ [][TraitNext]_vars

\* One declaration's attributes: extract_attributes.
InitAttr == AttrInit /\ TraitIdle /\ InherentIdle /\ RegistryIdle /\ RulesIdle
    /\ CompileIdle

SpecAttr == InitAttr /\ [][AttrNext]_vars

\* A capability block of several members: expanded, compiled, registered.
InitInherent == InherentInit /\ TraitIdle /\ AttrIdle /\ RegistryIdle /\ RulesIdle
    /\ CompileIdle

SpecInherent == InitInherent /\ [][InherentNext]_vars

\* A capability block of one method, of any shape.
SpecSingle == InitInherent /\ [][SingleNext]_vars

\* An extension crate: written, built, loaded by the host, unloaded.
InitRegistry == RegistryInit /\ TraitIdle /\ AttrIdle /\ InherentIdle /\ RulesIdle
    /\ CompileIdle

SpecRegistry == InitRegistry /\ [][RegistryNext]_vars

\* The binding generator at one method of one class.
InitRules == RulesInit /\ TraitIdle /\ AttrIdle /\ InherentIdle /\ RegistryIdle
    /\ CompileIdle

SpecRules == InitRules /\ [][RulesNext]_vars

\* A capability block member by member, or a crate of blocks.
InitExpansion == InitInherent \/ InitRegistry

ExpansionNext == InherentNext \/ RegistryNext

SpecExpansion == InitExpansion /\ [][ExpansionNext]_vars

\* Either kind of block.
InitApi == InitTrait \/ InitInherent

ApiNext == TraitNext \/ InherentNext

SpecApi == InitApi /\ [][ApiNext]_vars

----------------------------------------------------------------------------
(* Claims about the virtual-override block (SpecTrait).                    *)

LifecycleHooks == {"register_class", "init", "to_string", "on_notification"}

\* The declarations of `hook` in the block that survive the configuration
\* the code was compiled under.
SurvivingDecls(hook) ==
    {i \in 1..Len(original_impl) :
        /\ original_impl[i].name = hook
        /\ Survives(original_impl[i].attributes, config)}

\* The surviving declarations of non-lifecycle methods the host addresses
\* as `name`.
SurvivingVirtuals(name) ==
    {i \in 1..Len(original_impl) :
        /\ original_impl[i].name \notin LifecycleHooks
        /\ virtual_method_name(original_impl[i].name) = name
        /\ Survives(original_impl[i].attributes, config)}

\* C1: whenever more than one implementation of a lifecycle hook survives
\* the build configuration, the compilation reports a duplicate definition
\* of that hook and yields no plugin entry: no slot is resolved to one of
\* the candidates.
C1_DuplicateHookIsBuildError ==
    trait_pc = "compiled" =>
        \A hook \in LifecycleHooks :
            Cardinality(SurvivingDecls(hook)) > 1 =>
                /\ hook \in Unwrap(build).duplicate_definitions
                /\ plugin = None

\* Two implementations of init are declared under distinct attribute lists,
\* both survive, and the compilation has failed.
C1_Witness ==
    /\ trait_pc = "compiled"
    /\ \E i, j \in SurvivingDecls("init") :
          i # j /\ original_impl[i].attributes # original_impl[j].attributes
    /\ ~BuildOk(Unwrap(build))

\* The lifecycle slots of the plugin entry: the hook each is generated from
\* and the callback its candidates name.
Slots ==
    {[slot |-> "user_register_fn", hook |-> "register_class",
      callback |-> "register_class_by_builder"],
     [slot |-> "user_create_fn", hook |-> "init", callback |-> "create"],
     [slot |-> "user_recreate_fn", hook |-> "init", callback |-> "recreate"],
     [slot |-> "user_to_string_fn", hook |-> "to_string", callback |-> "to_string"],
     [slot |-> "user_on_notification_fn", hook |-> "on_notification",
      callback |-> "on_notification"]}

\* C2 as stated: in every successful build, each of the five slots is
\* Some(the hook's thunk) when exactly one implementation of its hook
\* survives, and None when none does.
C2_SlotFollowsSurvivor ==
    (trait_pc = "compiled" /\ IsSome(plugin)) =>
        \A s \in Slots :
            LET n == Cardinality(SurvivingDecls(s.hook))
                value == Unwrap(plugin).component[s.slot]
            IN  /\ n = 1 => value = Some(Callback(s.callback, ClassName))
                /\ n = 0 => value = None

\* C2 amended: as stated for register, create, to_string and
\* on_notification; the recreate slot follows the surviving init only when
\* the expander was built for host API 4.2 or later, and is None otherwise.
C2_SlotFollowsSurvivorSince42 ==
    (trait_pc = "compiled" /\ IsSome(plugin)) =>
        \A s \in Slots :
            LET n == Cardinality(SurvivingDecls(s.hook))
                value == Unwrap(plugin).component[s.slot]
                emitted == s.slot = "user_recreate_fn" => since_api_4_2
            IN  /\ (n = 1 /\ emitted) => value = Some(Callback(s.callback, ClassName))
                /\ (n = 0 \/ ~emitted) => value = None

\* A successful build by an expander built for an API before 4.2, in which
\* one init is compiled out and another survives: the create slot holds the
\* create thunk and the recreate slot holds None.
C2_Witness ==
    /\ trait_pc = "compiled"
    /\ IsSome(plugin)
    /\ ~since_api_4_2
    /\ Unwrap(plugin).component.user_recreate_fn = None
    /\ Cardinality(SurvivingDecls("init")) = 1
    /\ \E i \in 1..Len(original_impl) :
          original_impl[i].name = "init" /\ i \notin SurvivingDecls("init")
    /\ Unwrap(plugin).component.user_create_fn = Some(Callback("create", ClassName))

\* The thunk generated for the declaration at position i of the block.
ThunkOfDecl(i) ==
    make_virtual_method_callback(ClassName, [name |-> original_impl[i].name, decl |-> i])

\* Every name the host may ask for: those of the block's possible methods
\* and those of the host's calls.
VirtualNames == {virtual_method_name(n) : n \in TraitMethodNames} \cup HostVirtualNames

\* C3: in every successful build the dispatch lookup keeps at most one arm
\* per host virtual name; an active class answers a name without surviving
\* implementation with None, and any thunk it answers is the thunk of a
\* surviving implementation of that name.
C3_OneEntryPerVirtualName ==
    (trait_pc = "compiled" /\ IsSome(plugin)) =>
        /\ \A name \in VirtualNames :
              LET arms == Unwrap(trait_result).virtual_call
                  alive == {i \in 1..Len(arms) :
                               arms[i].name = name /\ Survives(arms[i].cfg_attrs, config)}
                  answer == virtual_call_fn(arms, config, FALSE, name)
              IN  /\ Cardinality(alive) <= 1
                  /\ SurvivingVirtuals(name) = {} => answer = None
                  /\ answer # None =>
                        \E i \in SurvivingVirtuals(name) : answer = ThunkOfDecl(i)
        /\ IsSome(virtual_call) =>
              LET call == Unwrap(virtual_call)
              IN  \/ call.result = None
                  \/ \E i \in SurvivingVirtuals(call.name) : call.result = ThunkOfDecl(i)

\* The host asked an active class for "_init" while the block's only
\* init_ext is compiled out, and got None.
C3_Witness ==
    /\ trait_pc = "compiled"
    /\ IsSome(virtual_call)
    /\ Unwrap(virtual_call).name = "_init"
    /\ ~Unwrap(virtual_call).inactive
    /\ Unwrap(virtual_call).result = None
    /\ \E i \in 1..Len(original_impl) : original_impl[i].name = "init_ext"
    /\ SurvivingVirtuals("_init") = {}

----------------------------------------------------------------------------
(* Claims about extract_attributes (SpecAttr).                             *)

\* The positions (0-based) of the role attributes of the declaration.
RolePositions ==
    {i \in 0..(Len(attributes) - 1) :
        /\ Len(attributes[i + 1].path) = 1
        /\ attributes[i + 1].path[1] \in RoleNames}

\* C10: a declaration with more than one role attribute is rejected,
\* whatever stands between them; with exactly one, that attribute is
\* returned with its name and position; with none, nothing is returned.
C10_AtMostOneRole ==
    attr_pc = "done" =>
        LET ret == Unwrap(attr_return)
            n == Cardinality(RolePositions)
        IN  /\ n > 1 => ~ret.ok /\ ret.error = AtMostOneRole
            /\ n = 1 =>
                  /\ ret.ok
                  /\ IsSome(Unwrap(ret.value))
                  /\ \A i \in RolePositions :
                        LET bound == Unwrap(Unwrap(ret.value))
                        IN  /\ bound.index = i
                            /\ bound.attr_name = attributes[i + 1].path[1]
                            /\ bound.ty.kind =
                                  CASE bound.attr_name = "func" -> "Func"
                                    [] bound.attr_name = "signal" -> "Signal"
                                    [] bound.attr_name = "constant" -> "Const"
            /\ n = 0 => ret.ok /\ Unwrap(ret.value) = None

\* Two role attributes with an unknown attribute between them: rejected.
C10_Witness ==
    /\ attr_pc = "done"
    /\ Len(attributes) = 3
    /\ RolePositions = {0, 2}
    /\ attributes[2].path = <<"doc">>
    /\ ~Unwrap(attr_return).ok

----------------------------------------------------------------------------
(* Claims about the capability block (SpecSingle, SpecApi).                *)

\* The single-segment names of the role attributes on a member, in order.
RolesOf(member) ==
    SelectSeq([i \in 1..Len(member.attributes) |->
                  IF Len(member.attributes[i].path) = 1
                  THEN member.attributes[i].path[1] ELSE ""],
              LAMBDA n : n \in RoleNames)

\* The members of the block, as written, that are methods carrying the
\* role attribute `role` and no other role attribute.
DeclsWithRole(kind, role) ==
    SelectSeq(input_decl, LAMBDA m : m.kind = kind /\ RolesOf(m) = <<role>>)

TypedParams(member) == SelectSeq(member.params, LAMBDA p : p.kind = "Typed")

InherentReturnedOk ==
    /\ inherent_pc \in {"returned", "compiled"}
    /\ Unwrap(inherent_return).ok

\* C8: when the expansion succeeds, the k-th signal of the block has the
\* k-th registration; its descriptor array and its declared length have as
\* many elements as the signal has typed parameters, and element i carries
\* the name and the type of the i-th typed parameter.
C8_SignalDescriptorFollowsParams ==
    InherentReturnedOk =>
        LET regs == Unwrap(Unwrap(inherent_return).value).signals
            sigs == DeclsWithRole("Method", "signal")
        IN  /\ Len(regs) = Len(sigs)
            /\ \A k \in 1..Len(sigs) :
                  LET typed == TypedParams(sigs[k])
                  IN  /\ regs[k].name = sigs[k].name
                      /\ regs[k].parameters_count = Len(typed)
                      /\ Len(regs[k].parameters) = Len(typed)
                      /\ \A i \in 1..Len(typed) :
                            /\ regs[k].parameters[i].name = typed[i].name
                            /\ regs[k].parameters[i].ty = typed[i].ty

\* A signal (p2: TypeB, self, p1: TypeA) was expanded: its descriptor has the
\* two elements p2: TypeB and p1: TypeA.
C8_Witness ==
    /\ InherentReturnedOk
    /\ Len(input_decl) = 1
    /\ input_decl[1].params = <<Typed("p2", "TypeB"), Receiver, Typed("p1", "TypeA")>>
    /\ Len(Unwrap(Unwrap(inherent_return).value).signals) = 1
    /\ Unwrap(Unwrap(inherent_return).value).signals[1].parameters =
          <<[name |-> "p2", ty |-> "TypeB"], [name |-> "p1", ty |-> "TypeA"]>>

\* A method carrying #[signal] and a return type.
IsSignalWithReturn(member) ==
    /\ member.kind = "Method"
    /\ \E i \in 1..Len(member.attributes) : member.attributes[i].path = <<"signal">>
    /\ IsSome(member.return_ty)

ReturnTypesNotSupported == "#[signal]: return types are not supported"

\* No signal definition was produced for `member`, and none is registered.
NoSignalDefinition(member) ==
    /\ \A k \in 1..Len(signal_definitions) :
          signal_definitions[k].signature.name # member.name
    /\ registered = None

\* C9 as stated: once a signal with a return type has been read, the
\* expansion has failed with "return types are not supported" and produced
\* no signal definition for it.
C9_SignalReturnTypeDiagnostic ==
    \A i \in 1..Len(input_decl) :
        IsSignalWithReturn(input_decl[i]) =>
            /\ inherent_pc = "returned"
            /\ ~Unwrap(inherent_return).ok
            /\ Unwrap(inherent_return).error = ReturnTypesNotSupported
            /\ NoSignalDefinition(input_decl[i])

\* C9 amended: once a signal with a return type has been read, the
\* expansion has failed and produced no signal definition for it; the
\* diagnostic is "return types are not supported" when #[signal] is the
\* declaration's only role attribute and the function has neither a
\* qualifier nor generic parameters.
C9_SignalReturnTypeRejected ==
    \A i \in 1..Len(input_decl) :
        IsSignalWithReturn(input_decl[i]) =>
            /\ inherent_pc = "returned"
            /\ ~Unwrap(inherent_return).ok
            /\ NoSignalDefinition(input_decl[i])
            /\ (/\ RolesOf(input_decl[i]) = <<"signal">>
                /\ input_decl[i].qualifiers = {}
                /\ ~input_decl[i].generic_params)
                  => Unwrap(inherent_return).error = ReturnTypesNotSupported

\* A #[cfg]-guarded signal with parameters and a return type was rejected
\* with the diagnostic.
C9_Witness ==
    /\ inherent_pc = "returned"
    /\ Len(input_decl) = 1
    /\ IsSignalWithReturn(input_decl[1])
    /\ input_decl[1].attributes = <<CfgAttr("a"), SignalAttr>>
    /\ Len(input_decl[1].params) = 2
    /\ Unwrap(inherent_return) = Err(ReturnTypesNotSupported)

\* Entry k is generated from declaration k, and the compiler keeps the
\* entry in exactly the configurations in which it keeps the declaration.
GuardedLike(entries, decls) ==
    /\ Len(entries) = Len(decls)
    /\ \A k \in 1..Len(decls) : \A cfg \in Configs :
          Survives(entries[k].cfg_attrs, cfg) <=> Survives(decls[k].attributes, cfg)

\* The traits of the lifecycle adapters, by hook.
AdapterTraits ==
    {[hook |-> "register_class", trait |-> "GodotRegisterClass"],
     [hook |-> "init", trait |-> "GodotInit"],
     [hook |-> "to_string", trait |-> "GodotToString"],
     [hook |-> "on_notification", trait |-> "GodotNotification"]}

\* C4: every registration entry of an expansion is kept by the compiler in
\* exactly the configurations that keep the declaration it was generated
\* from: the signal, constant and function registrations of a capability
\* block; the adapter impls, slot candidates and dispatch arms of a
\* virtual-override block.  What a compiled class registers belongs to
\* declarations that survived.
C4_EntriesCarryCfg ==
    /\ InherentReturnedOk =>
          LET result == Unwrap(Unwrap(inherent_return).value)
          IN  /\ GuardedLike(result.signals, DeclsWithRole("Method", "signal"))
              /\ GuardedLike(result.methods_registration, DeclsWithRole("Method", "func"))
              /\ GuardedLike(result.register_constants,
                             DeclsWithRole("Constant", "constant"))
    /\ (inherent_pc = "compiled" /\ IsSome(registered)) =>
          LET alive == {input_decl[i].name : i \in {i \in 1..Len(input_decl) :
                             Survives(input_decl[i].attributes, config)}}
              reg == Unwrap(registered)
          IN  /\ \A k \in 1..Len(reg.signals) : reg.signals[k].name \in alive
              /\ \A k \in 1..Len(reg.methods) : reg.methods[k].calls[2] \in alive
              /\ \A k \in 1..Len(reg.constants) : reg.constants[k].name \in alive
    /\ trait_pc \in {"emitted", "compiled"} =>
          LET result == Unwrap(trait_result)
              decls(hook) == SelectSeq(original_impl, LAMBDA m : m.name = hook)
          IN  /\ \A a \in AdapterTraits :
                    GuardedLike(SelectSeq(result.impls, LAMBDA x : x.trait = a.trait),
                                decls(a.hook))
              /\ \A s \in Slots :
                    LET arms == result.plugin.component[s.slot].arms
                    IN  \/ GuardedLike(arms, decls(s.hook))
                        \/ s.slot = "user_recreate_fn" /\ ~since_api_4_2 /\ arms = <<>>
              /\ GuardedLike(result.virtual_call,
                             SelectSeq(original_impl,
                                       LAMBDA m : m.name \notin LifecycleHooks))

\* A capability block with a #[cfg]-guarded function, signal and constant
\* was expanded.
C4_Witness ==
    /\ InherentReturnedOk
    /\ \A kr \in {<<"Method", "func">>, <<"Method", "signal">>, <<"Constant", "constant">>} :
          \E k \in 1..Len(DeclsWithRole(kr[1], kr[2])) :
              extract_cfg_attrs(DeclsWithRole(kr[1], kr[2])[k].attributes) # <<>>

----------------------------------------------------------------------------
(* The plugin registry and the host load protocol.                         *)

\* The registry state of a class, given the registry and what the host has
\* installed and unloaded.
StateOf(reg, inst, unl, c) ==
    IF c \in unl THEN "Unloaded"
    ELSE IF c \in inst THEN "Active"
    ELSE IF \E i \in 1..Len(reg) : reg[i].class_name = c THEN "Registered"
    ELSE "Unregistered"

ClassState(c) == StateOf(registry, installed, unloaded, c)

\* The steps a class may take: stay, or move to the next state.
AllowedSteps ==
    {<<st, st>> : st \in {"Unregistered", "Registered", "Active", "Unloaded"}}
      \cup {<<"Unregistered", "Registered">>, <<"Registered", "Active">>,
            <<"Active", "Unloaded">>}

\* C5: every class moves through the registry states only in the order
\* Unregistered, Registered, Active, Unloaded: each step either keeps the
\* state or moves to the next one, so no state is skipped, no step goes
\* backwards and nothing leaves Unloaded.
C5_StatesInOrder ==
    [][\A c \in Classes :
          <<ClassState(c), StateOf(registry', installed', unloaded', c)>> \in AllowedSteps]_vars

\* One class has gone all the way to Unloaded while another is still Active.
C5_Witness ==
    /\ \E c \in Classes : ClassState(c) = "Unloaded"
    /\ \E c \in Classes : ClassState(c) = "Active"

\* The pairs of distinct registry entries.
EntryPairs == {ij \in (1..Len(registry)) \X (1..Len(registry)) : ij[1] # ij[2]}

\* The pairs of distinct blocks of the crate of one class and one kind.
SameKindBlocks ==
    {ij \in (1..Len(crate)) \X (1..Len(crate)) :
        /\ ij[1] # ij[2]
        /\ crate[ij[1]].self_ty = crate[ij[2]].self_ty
        /\ IsSome(crate[ij[1]].trait_ty) = IsSome(crate[ij[2]].trait_ty)}

\* C6 as stated: the registry never holds two entries for the same class
\* name.
C6_OneEntryPerClassName ==
    \A ij \in EntryPairs : registry[ij[1]].class_name # registry[ij[2]].class_name

\* C6, amended: the registry never holds two entries of the same component
\* kind for the same class name, and a crate with two #[godot_api] blocks of
\* one kind for one class fails to build, so that nothing is registered.
C6_OneEntryPerClassAndKind ==
    /\ \A ij \in EntryPairs :
          ~ /\ registry[ij[1]].class_name = registry[ij[2]].class_name
            /\ registry[ij[1]].component.kind = registry[ij[2]].component.kind
    /\ (registry_pc # "source" /\ SameKindBlocks # {})
          => (registry_pc = "failed" /\ registry = <<>>)

\* A crate with two capability blocks for one class, every expansion of
\* which succeeded, has failed to build.
C6_Witness ==
    /\ registry_pc = "failed"
    /\ \E ij \in SameKindBlocks :
          /\ ~IsSome(crate[ij[1]].trait_ty)
          /\ \A i \in 1..Len(crate) : attribute_godot_api(crate[i], TRUE).ok

\* Whether a registry entry is a fully built ClassPlugin.
Complete(b) ==
    /\ DOMAIN b = {"class_name", "component", "init_level"}
    /\ b.class_name \in Classes
    /\ IF b.component.kind = "UserVirtuals"
       THEN /\ DOMAIN b.component =
                  {"kind", "user_register_fn", "user_create_fn", "user_recreate_fn",
                   "user_to_string_fn", "user_on_notification_fn", "get_virtual_fn"}
            /\ \A slot \in {b.component.user_register_fn, b.component.user_create_fn,
                            b.component.user_recreate_fn, b.component.user_to_string_fn,
                            b.component.user_on_notification_fn} :
                  slot = None \/ (Len(slot) = 1 /\ slot[1].class = b.class_name)
            /\ b.component.get_virtual_fn = Callback("get_virtual", b.class_name)
       ELSE /\ b.component.kind = "UserMethodBinds"
            /\ DOMAIN b.component = {"kind", "generated_register_fn"}
            /\ b.component.generated_register_fn =
                  Callback("register_user_binds", b.class_name)

\* C7: the registry changes only by appending one entry, every entry in it
\* is a fully built bundle, the entries already appended stay as they are
\* and where they are, and once the host's load pass has read the registry
\* it no longer changes.
C7_AppendOnlyCompleteBundles ==
    [][/\ \/ registry' = registry
          \/ /\ Len(registry') = Len(registry) + 1
             /\ SubSeq(registry', 1, Len(registry)) = registry
       /\ \A i \in 1..Len(registry') : Complete(registry'[i])
       /\ registry_pc \in {"loading", "loaded"} => registry' = registry]_vars

\* The load pass has read a registry whose two entries, one of each kind,
\* were appended in the opposite order of their blocks.
C7_Witness ==
    /\ registry_pc = "loaded"
    /\ Len(registry) = 2
    /\ registry[1] = plugins[2]
    /\ registry[1].component.kind # registry[2].component.kind
    /\ unloaded # {}

----------------------------------------------------------------------------
(* Exported functions.                                                     *)

\* A method carrying #[func], with or without options.
IsExportedFn(member) ==
    /\ member.kind = "Method"
    /\ \E i \in 1..Len(member.attributes) : member.attributes[i].path = <<"func">>

\* No function definition was produced for `member`, and none is registered.
NoFuncDefinition(member) ==
    /\ \A k \in 1..Len(func_definitions) : func_definitions[k].func.name # member.name
    /\ registered = None

\* C11: once an exported function with a qualifier (default, const, async,
\* unsafe, extern) or with generic parameters has been read, the expansion
\* has failed, and no function definition exists for it.
C11_QualifiedOrGenericFnRejected ==
    \A i \in 1..Len(input_decl) :
        (/\ IsExportedFn(input_decl[i])
         /\ (input_decl[i].qualifiers # {} \/ input_decl[i].generic_params))
          => /\ inherent_pc = "returned"
             /\ ~Unwrap(inherent_return).ok
             /\ NoFuncDefinition(input_decl[i])

\* An exported async fn was rejected for its qualifier.
C11_Witness ==
    /\ inherent_pc = "returned"
    /\ Len(input_decl) = 1
    /\ IsExportedFn(input_decl[1])
    /\ input_decl[1].qualifiers = {"async"}
    /\ ~input_decl[1].generic_params
    /\ Unwrap(inherent_return) = Err("#[func]: fn qualifiers are not allowed")

\* Whether the #[func] attribute of an exported function has the option
\* gd_self.
HasGdSelf(member) ==
    \E i \in 1..Len(member.attributes) :
        member.attributes[i].path = <<"func">> /\ member.attributes[i].value = "gd_self"

\* The members of the block, as written, named `name`.
DeclsNamed(name) == SelectSeq(input_decl, LAMBDA m : m.name = name)

\* C12: an exported function with gd_self and no parameters is rejected and
\* gets no function definition; every function definition belongs to one
\* declaration and holds its name and return type, and its parameters are
\* the declared ones without the first when the function has gd_self, and
\* the declared ones unchanged when it has not.
C12_GdSelfDropsFirstParam ==
    /\ \A i \in 1..Len(input_decl) :
          (/\ IsExportedFn(input_decl[i])
           /\ HasGdSelf(input_decl[i])
           /\ input_decl[i].params = <<>>)
            => /\ inherent_pc = "returned"
               /\ ~Unwrap(inherent_return).ok
               /\ NoFuncDefinition(input_decl[i])
    /\ \A k \in 1..Len(func_definitions) :
          LET def == func_definitions[k]
              decls == DeclsNamed(def.func.name)
          IN  /\ Len(decls) = 1
              /\ IsExportedFn(decls[1])
              /\ def.has_gd_self = HasGdSelf(decls[1])
              /\ def.func.return_ty = decls[1].return_ty
              /\ def.func.params = IF HasGdSelf(decls[1])
                                   THEN Tail(decls[1].params)
                                   ELSE decls[1].params

\* A gd_self function (p2: TypeB, self, p1: TypeA) is registered with the
\* parameters (self, p1: TypeA).
C12_Witness ==
    /\ Len(func_definitions) = 1
    /\ HasGdSelf(input_decl[1])
    /\ input_decl[1].params = <<Typed("p2", "TypeB"), Receiver, Typed("p1", "TypeA")>>
    /\ func_definitions[1].func.params = <<Receiver, Typed("p1", "TypeA")>>
    /\ inherent_pc = "returned"
    /\ Unwrap(inherent_return).ok

----------------------------------------------------------------------------
(* The by-name dispatch lookup of a virtual-override block.                *)

\* The name under which the host asks for each non-lifecycle method.
HostNameOf ==
    [n \in TraitMethodNames \ LifecycleHooks |->
        CASE n = "ready" -> "_ready"
          [] n = "process" -> "_process"
          [] n = "init_ext" -> "_init"]

\* The methods of the block, as written, that are not lifecycle hooks.
NonLifecycleDecls == SelectSeq(original_impl, LAMBDA m : m.name \notin LifecycleHooks)

\* C13: the arms of the dispatch lookup are, in order, the methods of the
\* block that are not lifecycle hooks, each under its user name prefixed with
\* one underscore, init_ext under _init; no arm dispatches to a lifecycle
\* hook.
C13_VirtualsAreUnderscorePrefixed ==
    trait_pc \in {"emitted", "compiled"} =>
        LET arms == Unwrap(trait_result).virtual_call
        IN  /\ Len(arms) = Len(NonLifecycleDecls)
            /\ \A k \in 1..Len(arms) :
                  /\ Unwrap(arms[k].value).method = NonLifecycleDecls[k].name
                  /\ arms[k].name = HostNameOf[NonLifecycleDecls[k].name]
                  /\ Unwrap(arms[k].value).method \notin LifecycleHooks

\* A block with init and init_ext was expanded: the lookup has the one arm
\* _init, for init_ext, and init fills the create slot.
C13_Witness ==
    /\ trait_pc = "emitted"
    /\ {original_impl[i].name : i \in 1..Len(original_impl)} = {"init", "init_ext"}
    /\ Len(Unwrap(trait_result).virtual_call) = 1
    /\ Unwrap(trait_result).virtual_call[1].name = "_init"
    /\ Unwrap(trait_result).plugin.component.user_create_fn.is_match

\* C20: two arms of the dispatch lookup that dispatch to methods of different
\* user names have different host names, and an arm named _init dispatches to
\* init_ext, never to init.
C20_VirtualNameInjective ==
    trait_pc \in {"emitted", "compiled"} =>
        LET arms == Unwrap(trait_result).virtual_call
        IN  /\ \A j, k \in 1..Len(arms) :
                  Unwrap(arms[j].value).method # Unwrap(arms[k].value).method
                    => arms[j].name # arms[k].name
            /\ \A k \in 1..Len(arms) :
                  arms[k].name = "_init" => Unwrap(arms[k].value).method = "init_ext"

\* A block with init_ext first and init second was expanded and compiled,
\* and the host looked _init up.
C20_Witness ==
    /\ trait_pc = "compiled"
    /\ Len(original_impl) = 2
    /\ original_impl[1].name = "init_ext"
    /\ original_impl[2].name = "init"
    /\ Len(Unwrap(trait_result).virtual_call) = 1
    /\ virtual_call # None
    /\ Unwrap(virtual_call).name = "_init"

----------------------------------------------------------------------------
(* The rule set of the binding generator.                                  *)

\* The rule set has been consulted on the class and method.
Consulted == rules_pc \in {"consulted", "generated"}

ChangedAgain(class_name, name) ==
    \/ Join(name) = "new"
    \/ starts_with(name, "get_") /\ ~keeps_get_prefix(class_name, name)

C15_ExperimentalNeedsOptIn ==
    (/\ Consulted
     /\ ~features.experimental_godot_api
     /\ Join(ty_name) \in ExperimentalClasses)
      => /\ \A k \in 1..Len(answers) : answers[k].is_class_deleted
         /\ IsSome(output) =>
               /\ ~Unwrap(output).class
               /\ Unwrap(output).method = "absent"
               /\ ~Unwrap(output).accessor

\* TextureRect, not opted in, built for macOS before API 4.2: nothing of it
\* is generated.
C15_Witness ==
    /\ rules_pc = "generated"
    /\ Join(ty_name) = "TextureRect"
    /\ features = [experimental_godot_api |-> FALSE, before_api_4_2 |-> TRUE,
                   target_os_macos |-> TRUE]
    /\ ~Unwrap(output).class

\* C16 as stated: every function of the rule set returns, on every class or
\* builtin type name and every method name, and returns the same on every
\* consultation.
C16_RulesTotalAndDeterministic ==
    \A k \in 1..Len(answers) :
        /\ IsSome(answers[k].is_builtin_scalar)
        /\ IsSome(answers[k].is_builtin_type_deleted)
        /\ answers[k] = answers[1]

\* C18: under every build configuration and generator context,
\* Object::get_instance_id is deleted, is not private and is not in the
\* named-accessor table, and the generator emits no method and no accessor
\* for it.
C18_InstanceIdExcluded ==
    (/\ Consulted
     /\ Join(ty_name) = "Object"
     /\ Join(ty_method) = "get_instance_id")
      => /\ \A k \in 1..Len(answers) :
               /\ answers[k].is_deleted
               /\ ~answers[k].is_private
               /\ ~answers[k].is_named_accessor_in_table
         /\ IsSome(output) =>
               /\ Unwrap(output).method = "absent"
               /\ ~Unwrap(output).accessor

\* Object is generated, its get_instance_id is not, although the context
\* does not exclude the method.
C18_Witness ==
    /\ rules_pc = "generated"
    /\ Join(ty_name) = "Object"
    /\ Join(ty_method) = "get_instance_id"
    /\ ~context.method_excluded
    /\ Unwrap(output).class
    /\ Unwrap(output).method = "absent"

----------------------------------------------------------------------------
(* Failed expansions.                                                      *)

\* A member of a capability block that fails a validation: more than one
\* role attribute; on a function, #[constant], a qualifier or generic
\* parameters, a signal's return type, gd_self without a parameter; on a
\* constant, #[func] or #[signal], or no initializer.
InvalidMember(member) ==
    LET roles == RolesOf(member)
    IN  \/ Len(roles) > 1
        \/ /\ Len(roles) = 1
           /\ member.kind = "Method"
           /\ \/ roles[1] = "constant"
              \/ member.qualifiers # {}
              \/ member.generic_params
              \/ roles[1] = "signal" /\ IsSome(member.return_ty)
              \/ roles[1] = "func" /\ HasGdSelf(member) /\ member.params = <<>>
        \/ /\ Len(roles) = 1
           /\ member.kind = "Constant"
           /\ (roles[1] \in {"func", "signal"} \/ ~member.initializer)

\* A declaration that fails a validation, of its own or of a member.
InvalidDeclaration(decl) ==
    \/ decl.kind # "Impl"
    \/ decl.impl_generic_params
    \/ decl.self_ty \in NonPathTypes
    \/ /\ decl.trait_ty = None
       /\ \E i \in 1..Len(decl.body_items) : InvalidMember(decl.body_items[i])

\* C17: a capability block with a member that fails a validation expands
\* to the error alone, whatever was validated before: no token stream, and
\* nothing registered; a crate with a declaration that fails a validation
\* has that declaration expand to the error alone, fails to build, and puts
\* no plugin entry in the registry.
C17_ExpansionAllOrNothing ==
    /\ (/\ inherent_pc \in {"returned", "compiled"}
        /\ \E i \in 1..Len(input_decl) : InvalidMember(input_decl[i]))
          => /\ inherent_pc = "returned"
             /\ ~Unwrap(inherent_return).ok
             /\ Unwrap(inherent_return).value = None
             /\ registered = None
    /\ \A i \in 1..Len(crate) :
          InvalidDeclaration(crate[i]) =>
             /\ \A api42 \in BOOLEAN :
                   /\ ~attribute_godot_api(crate[i], api42).ok
                   /\ attribute_godot_api(crate[i], api42).value = None
             /\ registry_pc \in {"source", "failed"}
             /\ plugins = <<>>
             /\ registry = <<>>

\* A block whose function and signal were validated and whose third member,
\* a signal with a return type, was not: the expansion is the error alone.
C17_Witness ==
    /\ inherent_pc = "returned"
    /\ Len(input_decl) = 3
    /\ Len(func_definitions) = 1
    /\ Len(signal_definitions) = 1
    /\ IsSignalWithReturn(input_decl[3])
    /\ Unwrap(inherent_return) = Err(ReturnTypesNotSupported)
    /\ registered = None

----------------------------------------------------------------------------
(* The block process_godot_fns leaves.                                     *)

\* A member as process_godot_fns leaves it: a function with a role
\* attribute without that attribute, any other member as it is.
WithoutRole(member) ==
    IF member.kind = "Method"
    THEN [member EXCEPT !.attributes =
            SelectSeq(@, LAMBDA a : ~(Len(a.path) = 1 /\ a.path[1] \in RoleNames))]
    ELSE member

\* The members of the block, as written, that are not #[signal]
\* declarations, in their order, each as process_godot_fns leaves it.
MembersLeft ==
    LET kept == SelectSeq(input_decl,
                          LAMBDA m : ~(m.kind = "Method" /\ RolesOf(m) = <<"signal">>))
    IN  [k \in 1..Len(kept) |-> WithoutRole(kept[k])]

\* C19: whenever process_godot_fns has read the members of a block without
\* an error, the block it leaves after removing the signals holds exactly
\* the members that are not #[signal] declarations, in their original
\* order; a #[func] function has lost its role attribute and kept its other
\* attributes, and every other member is unchanged.
C19_SignalsRemovedOthersKept ==
    /\ inherent_pc = "fns" =>
          remove_indexes(body_items, removed_indexes) = MembersLeft
    /\ InherentReturnedOk =>
          /\ Len(Unwrap(Unwrap(inherent_return).value).decl) = Len(MembersLeft)
          /\ \A k \in 1..Len(MembersLeft) :
                MembersLeft[k].kind = "Method"
                  => Unwrap(Unwrap(inherent_return).value).decl[k] = MembersLeft[k]

\* A signal, a #[cfg]-guarded #[func] function and another signal were
\* read: the function alone is left, under its #[cfg].
C19_Witness ==
    /\ inherent_pc = "fns"
    /\ Len(input_decl) = 3
    /\ removed_indexes = <<0, 2>>
    /\ input_decl[2].attributes = <<CfgAttr("a"), FuncAttr>>
    /\ remove_indexes(body_items, removed_indexes) =
          <<[input_decl[2] EXCEPT !.attributes = <<CfgAttr("a")>>]>>


\* What an active class answers the host for `name`: the thunk of the
\* surviving implementation the host addresses by that name, None without
\* one.
ActiveAnswer(name) ==
    IF SurvivingVirtuals(name) = {} THEN None
    ELSE ThunkOfDecl(CHOOSE i \in SurvivingVirtuals(name) : TRUE)

\* C21: in every successful build, an inactive class answers every virtual
\* name with None, the names with a surviving implementation included, and
\* a notification delivered to it returns without a call of the user's
\* on_notification; the answer of an active class is a function of the
\* name alone, whatever was looked up or delivered before.
C21_InactiveClassIsSilent ==
    (trait_pc = "compiled" /\ IsSome(plugin)) =>
        /\ \A name \in VirtualNames :
              LET arms == Unwrap(trait_result).virtual_call
              IN  /\ virtual_call_fn(arms, config, TRUE, name) = None
                  /\ virtual_call_fn(arms, config, FALSE, name) = ActiveAnswer(name)
        /\ IsSome(virtual_call) =>
              LET call == Unwrap(virtual_call)
              IN  call.result = IF call.inactive THEN None ELSE ActiveAnswer(call.name)
        /\ IsSome(notification) =>
              (Unwrap(notification).inactive => Unwrap(notification).calls = <<>>)

\* The host asked an inactive class for "_ready", whose implementation
\* survives, and got None; and a notification delivered to the inactive
\* class, whose on_notification survives, made no call.
C21_Witness ==
    /\ trait_pc = "compiled"
    /\ IsSome(plugin)
    /\ IsSome(virtual_call)
    /\ Unwrap(virtual_call).name = "_ready"
    /\ Unwrap(virtual_call).inactive
    /\ Unwrap(virtual_call).result = None
    /\ ActiveAnswer("_ready") # None
    /\ IsSome(notification)
    /\ Unwrap(notification).inactive
    /\ Unwrap(notification).calls = <<>>
    /\ godot_notification(Unwrap(trait_result).impls, config, FALSE,
                          Unwrap(notification).what)
          = <<[method |-> "on_notification", what |-> Unwrap(notification).what]>>

====
